---- MODULE Spec2Model ----
(***************************************************************************)
(* A model of spider-cli's durable crawl engine: the SQLite state store    *)
(* (src/state/mod.rs), the proxy rotator (src/features/proxy.rs), the      *)
(* dedup cache (src/features/cache.rs), the URL canonicalizer              *)
(* (src/url_parser/mod.rs) and the parts of the orchestrator loop          *)
(* (src/crawler/mod.rs) that drive them.                                   *)
(*                                                                         *)
(* Each component has its own specification (SpecResults, SpecFrontier,    *)
(* SpecProxy, SpecUrl); a specification leaves the other components'       *)
(* variables at their initial values.                                      *)
(***************************************************************************)
EXTENDS Integers, Sequences, FiniteSets, TLC

VARIABLES
    results,     \* table `results`: sequence of rows in rowid order
    frontier,    \* table `frontier`: sequence of rows in rowid order
    storeRet,    \* the last store call: its name, what it met and what it returned
    opc,         \* per orchestrator: position in Crawler::run
    ocur,        \* per orchestrator: canonical url of the event in flight
    ocache,      \* per orchestrator: CacheManager.visited_results
    proxies,     \* ProxyManager.proxies: the pool, fixed at construction
    current,     \* ProxyManager.current: the AtomicUsize cursor
    tpc,         \* per thread: position in ProxyManager::get_next
    tobs,        \* per thread: the cursor value its fetch_add returned
    tret,        \* per thread: what its last get_next returned
    calls,       \* the fetch_add calls made so far, in the order they took effect
    upc,         \* canonicalizer run: which calls of normalize_url have returned
    partsA,      \* the components the first raw url is written from
    partsB,      \* the components the second raw url is written from
    normA,       \* normalize_url(first raw url)
    normB,       \* normalize_url(second raw url)
    normAA,      \* normalize_url(normA)
    crawler,     \* the Crawler made by Crawler::new: what it was given and holds
    rargs,       \* Crawler::run: its arguments
    rpc,         \* Crawler::run: position
    rcur,        \* Crawler::run: canonical url of the event being processed
    rcache,      \* Crawler::run: CacheManager.visited_results
    chan,        \* the subscription rx2: events not yet received, lag, closure
    fetcher,     \* the spawned website.crawl() task and what it has sent
    cancel,      \* cancel_token, and where run stood when it fired
    sink,        \* status_tx: its receiver and what the receiver got
    rlog,        \* the events rx2.recv() handed to the loop, in order
    rret,        \* what Crawler::run returned and through which exit
    crawls,      \* table `crawls`: sequence of rows in rowid order
    clock,       \* CURRENT_TIMESTAMP of the database, in seconds
    crawlRet,    \* the last call on table `crawls` and what it returned
    ccache,      \* a CacheManager on its own: visited_results
    cop,         \* the last call on that CacheManager, with the set it met
    furl,        \* the components of the url UrlRef::from_str is called on
    fref,        \* what UrlRef::from_str returned for it
    coll,        \* a UrlCollection: unique_urls and the nodes of its trees
    cadded,      \* the urls UrlCollection::add was called with, in order
    xrec,        \* the field extraction of one page: queries made and map built
    sites,       \* AppState::sites of the dashboard
    tokens,      \* AppState::tokens: the (crawl id, token) entries
    tasks,       \* the crawls start_crawl has spawned, by request
    stopRet,     \* the last stop_crawl request and its answer
    cfiles,      \* the configuration files on disk
    loader,      \* a call of ConfigLoader::load: position, chain and result
    started,     \* what the front part of start_crawl made of a request
    mpair,       \* the (parent, child) merge_configs is called on
    mout         \* what merge_configs returned for it

storeVars == <<results, frontier, storeRet>>
orchVars == <<opc, ocur, ocache>>
proxyVars == <<proxies, current, tpc, tobs, tret, calls>>
urlVars == <<upc, partsA, partsB, normA, normB, normAA>>
runVars == <<crawler, rargs, rpc, rcur, rcache, chan, fetcher, cancel, sink,
             rlog, rret>>
crawlVars == <<crawls, clock, crawlRet>>
cacheVars == <<ccache, cop>>
refVars == <<furl, fref>>
collVars == <<coll, cadded>>
extractVars == <<xrec>>
dashVars == <<sites, tokens, tasks, stopRet>>
confVars == <<cfiles, loader, started, mpair, mout>>
libVars == <<crawlVars, cacheVars, refVars, collVars, extractVars, dashVars,
             confVars>>
vars == <<results, frontier, storeRet, opc, ocur, ocache,
          proxies, current, tpc, tobs, tret, calls,
          upc, partsA, partsB, normA, normB, normAA,
          crawler, rargs, rpc, rcur, rcache, chan, fetcher, cancel, sink,
          rlog, rret, crawls, clock, crawlRet, ccache, cop, furl, fref,
          coll, cadded, xrec, sites, tokens, tasks, stopRet, cfiles, loader,
          started, mpair, mout>>

(***************************************************************************)
(* Bounds of the model.                                                    *)
(***************************************************************************)
NumCrawls == 2
NumUrls == 2
NumData == 2
NumOrch == 2

CrawlIds == 1..NumCrawls
UrlIds == 1..NumUrls
DataVals == 1..NumData
Orchs == 1..NumOrch

NoCall == [op |-> "none"]

(***************************************************************************)
(* Durable state store: table `results`.                                   *)
(***************************************************************************)

\* serde_json::to_string(data): the JSON text stored in column `data`.
to_string(d) == <<"json", d>>

\* Some row of `rows` carries the key (crawl_id, url).
HasRow(rows, c, u) ==
    \E i \in 1..Len(rows) : rows[i].crawl_id = c /\ rows[i].url = u

\* The rows of `rows` carrying the key (crawl_id, url).
RowsOf(rows, c, u) ==
    {i \in 1..Len(rows) : rows[i].crawl_id = c /\ rows[i].url = u}

\* INSERT INTO results without the conflict clause taking effect.
InsertResultAlways(rows, c, u, d) ==
    Append(rows, [id |-> Len(rows) + 1, crawl_id |-> c, url |-> u,
                  data |-> to_string(d)])

\* INSERT OR REPLACE INTO results: the conflicting row is replaced.
InsertOrReplaceResult(rows, c, u, d) ==
    IF HasRow(rows, c, u)
    THEN [i \in 1..Len(rows) |->
            IF rows[i].crawl_id = c /\ rows[i].url = u
            THEN [rows[i] EXCEPT !.data = to_string(d)]
            ELSE rows[i]]
    ELSE InsertResultAlways(rows, c, u, d)

\* INSERT OR IGNORE INTO results (crawl_id, url, data) under UNIQUE(crawl_id, url):
\* a conflicting row makes the statement a no-op, otherwise a row is appended
\* with the next AUTOINCREMENT id.
InsertOrIgnoreResult(rows, c, u, d) ==
    IF HasRow(rows, c, u)
    THEN rows
    ELSE Append(rows, [id |-> Len(rows) + 1, crawl_id |-> c, url |-> u,
                       data |-> to_string(d)])

\* SELECT url FROM results WHERE crawl_id = ?
get_visited_urls(rows, c) ==
    {rows[i].url : i \in {j \in 1..Len(rows) : rows[j].crawl_id = c}}

\* StateManager::save_result called by any client of the store; io = "fail"
\* is an I/O failure of the statement, surfaced by `?` with the table untouched.
save_result(c, u, d, io) ==
    /\ results' = IF io = "ok" THEN InsertOrIgnoreResult(results, c, u, d)
                  ELSE results
    /\ storeRet' = [op |-> "save_result", dup |-> HasRow(results, c, u),
                    io |-> io, ret |-> IF io = "ok" THEN "Ok" ELSE "Err"]
    /\ UNCHANGED frontier

(***************************************************************************)
(* Durable state store: table `frontier`.                                  *)
(***************************************************************************)

\* Machine words, scaled down: usize has UsizeBits bits, i32 has I32Bits bits
\* (I32Bits < UsizeBits, as 32 < 64).
UsizeBits == 4
I32Bits == 3

Pow2(n) == IF n = 0 THEN 1 ELSE 2 ^ n
UsizeMod == Pow2(UsizeBits)
I32Mod == Pow2(I32Bits)

\* `depth as i32`: keep the low bits, read them as a signed number.
as_i32(n) ==
    LET low == n % I32Mod
    IN  IF low >= I32Mod \div 2 THEN low - I32Mod ELSE low

\* `depth as usize` of an i32: sign-extend, read as an unsigned number.
as_usize(i) == i % UsizeMod

MaxDepth == 1
MaxBatch == 2
MaxLimit == 2

Depths == 0..MaxDepth
Limits == (-1)..MaxLimit
Batches ==
    UNION {[1..n -> UrlIds \X Depths] : n \in 0..MaxBatch}

\* INSERT OR REPLACE INTO frontier: the conflicting row is overwritten.
InsertOrReplaceFrontier(rows, c, u, depth) ==
    IF HasRow(rows, c, u)
    THEN [i \in 1..Len(rows) |->
            IF rows[i].crawl_id = c /\ rows[i].url = u
            THEN [rows[i] EXCEPT !.depth = as_i32(depth), !.status = "pending"]
            ELSE rows[i]]
    ELSE Append(rows, [id |-> Len(rows) + 1, crawl_id |-> c, url |-> u,
                       depth |-> as_i32(depth), status |-> "pending"])

\* INSERT OR IGNORE INTO frontier (crawl_id, url, depth, status)
\* VALUES (?, ?, ?, 'pending') under UNIQUE(crawl_id, url).
InsertOrIgnoreFrontier(rows, c, u, depth) ==
    IF HasRow(rows, c, u)
    THEN rows
    ELSE Append(rows, [id |-> Len(rows) + 1, crawl_id |-> c, url |-> u,
                       depth |-> as_i32(depth), status |-> "pending"])

\* The loop of add_to_frontier over the first k pairs of the batch, one
\* statement per pair.
RECURSIVE InsertBatch(_, _, _, _)
InsertBatch(rows, c, batch, k) ==
    IF k = 0 THEN rows
    ELSE InsertOrIgnoreFrontier(InsertBatch(rows, c, batch, k - 1), c,
                                batch[k][1], batch[k][2])

\* StateManager::add_to_frontier: statements 1..k succeed; k < Len(batch) is
\* an I/O failure of statement k+1, which `?` returns at once.
add_to_frontier(c, batch, k) ==
    /\ frontier' = InsertBatch(frontier, c, batch, k)
    /\ storeRet' = [op |-> "add_to_frontier", crawl_id |-> c, batch |-> batch,
                    done |-> k,
                    ret |-> IF k = Len(batch) THEN "Ok" ELSE "Err"]
    /\ UNCHANGED results

\* SELECT id, url, depth FROM frontier WHERE crawl_id = ? AND status = 'pending'
\* LIMIT ?  -- rows in rowid order; a negative LIMIT is no limit in SQLite.
\* Each row is mapped to (id, url, depth as usize).
PendingRows(rows, c, limit) ==
    LET sel == SelectSeq(rows, LAMBDA r : r.crawl_id = c /\ r.status = "pending")
        n == IF limit < 0 \/ limit > Len(sel) THEN Len(sel) ELSE limit
    IN  [i \in 1..n |-> <<sel[i].id, sel[i].url, as_usize(sel[i].depth)>>]

\* The record of a read: `again` says that the call before it was the same read.
ReadRecord(c, limit, rows) ==
    [op |-> "get_pending_frontier", crawl_id |-> c, limit |-> limit,
     rows |-> rows,
     again |-> /\ storeRet.op = "get_pending_frontier"
               /\ storeRet.crawl_id = c
               /\ storeRet.limit = limit]

\* A read that leases what it returns: the returned rows become 'processing'.
get_pending_frontier_lease(c, limit) ==
    LET got == PendingRows(frontier, c, limit)
        ids == {got[i][1] : i \in 1..Len(got)}
    IN  /\ storeRet' = ReadRecord(c, limit, got)
        /\ frontier' = [i \in 1..Len(frontier) |->
                          IF frontier[i].id \in ids
                          THEN [frontier[i] EXCEPT !.status = "processing"]
                          ELSE frontier[i]]
        /\ UNCHANGED results

\* StateManager::get_pending_frontier: a SELECT and nothing else.
get_pending_frontier(c, limit) ==
    /\ storeRet' = ReadRecord(c, limit, PendingRows(frontier, c, limit))
    /\ UNCHANGED <<frontier, results>>

\* Direct calls of the frontier operations by a client of the store.
client_add_to_frontier(c, batch, k) ==
    /\ add_to_frontier(c, batch, k)
    /\ UNCHANGED <<orchVars, proxyVars, urlVars, runVars, libVars>>

client_get_pending_frontier(c, limit) ==
    /\ get_pending_frontier(c, limit)
    /\ UNCHANGED <<orchVars, proxyVars, urlVars, runVars, libVars>>

(***************************************************************************)
(* Orchestrators sharing the store: the part of Crawler::run's loop that   *)
(* reads the dedup cache, saves the result and updates the cache.  Every   *)
(* orchestrator runs on the active crawl (main.rs resumes the active       *)
(* crawl) and has a CacheManager of its own.                               *)
(***************************************************************************)
OrchCrawl == 1

\* CacheManager::is_cached
is_cached(cacheSet, u) == u \in cacheSet

\* CacheManager::cache
cache(cacheSet, u) == cacheSet \cup {u}

\* CacheManager::extend
extend(cacheSet, us) == cacheSet \cup us

\* The data orchestrator w extracts from a page (its own selectors).
ExtractedData(w) == ((w - 1) % NumData) + 1

\* Crawler::run before the loop: seed the cache from the persisted results.
orch_seed(w) ==
    /\ opc[w] = "start"
    /\ ocache' = [ocache EXCEPT ![w] = extend(@, get_visited_urls(results, OrchCrawl))]
    /\ opc' = [opc EXCEPT ![w] = "recv"]
    /\ UNCHANGED <<ocur, storeVars, proxyVars, urlVars, runVars, libVars>>

\* An event arrives: normalize, then skip when the key is cached.
orch_recv(w, u) ==
    /\ opc[w] = "recv"
    /\ IF is_cached(ocache[w], u)
       THEN UNCHANGED <<opc, ocur>>
       ELSE /\ opc' = [opc EXCEPT ![w] = "save"]
            /\ ocur' = [ocur EXCEPT ![w] = u]
    /\ UNCHANGED <<ocache, storeVars, proxyVars, urlVars, runVars, libVars>>

\* save_result(...).await? : an error ends run.
orch_save(w, io) ==
    /\ opc[w] = "save"
    /\ save_result(OrchCrawl, ocur[w], ExtractedData(w), io)
    /\ opc' = [opc EXCEPT ![w] = IF io = "ok" THEN "cache" ELSE "failed"]
    /\ UNCHANGED <<ocur, ocache, proxyVars, urlVars, runVars, libVars>>

\* cache_manager.cache(url), then back to the top of the loop.
orch_cache(w) ==
    /\ opc[w] = "cache"
    /\ ocache' = [ocache EXCEPT ![w] = cache(@, ocur[w])]
    /\ opc' = [opc EXCEPT ![w] = "recv"]
    /\ UNCHANGED <<ocur, storeVars, proxyVars, urlVars, runVars, libVars>>

\* A direct call of save_result by another client of the store.
client_save_result(c, u, d, io) ==
    /\ save_result(c, u, d, io)
    /\ UNCHANGED <<orchVars, proxyVars, urlVars, runVars, libVars>>

(***************************************************************************)
(* Proxy rotator.  Threads share one ProxyManager; a call of get_next is   *)
(* the atomic fetch_add followed by the thread's own indexing of the pool. *)
(***************************************************************************)
MaxPool == 3
NumThreads == 2
MaxCalls == 18

Threads == 1..NumThreads
\* Option::None; the endpoints are 1, 2, ...
None == 0
\* What a thread holds before its first call of get_next has returned.
NoReturn == -1

\* ProxyManager::new(proxies): endpoint i stands at position i of the pool.
NewPool(n) == [i \in 1..n |-> i]

\* The value current.fetch_add(1, SeqCst) leaves in the cursor: usize
\* addition wraps around.
fetch_add(cur) == (cur + 1) % UsizeMod

\* Crawler::new(state_manager, crawl_id, proxies), proxies a list of n
\* endpoints: no ProxyManager at all for an empty list.
Crawler_new(n) ==
    [given |-> n, proxy_manager |-> IF n = 0 THEN "None" ELSE "Some"]

\* A get_next that advances the cursor before it looks at the pool.
get_next_empty_advancing(t) ==
    /\ tpc[t] = "idle"
    /\ Len(proxies) = 0
    /\ current' = fetch_add(current)
    /\ tret' = [tret EXCEPT ![t] = None]
    /\ UNCHANGED <<proxies, tpc, tobs, calls, storeVars, orchVars, urlVars, runVars, libVars>>

\* self.proxies.is_empty() => return None
get_next_empty(t) ==
    /\ tpc[t] = "idle"
    /\ Len(proxies) = 0
    /\ tret' = [tret EXCEPT ![t] = None]
    /\ UNCHANGED <<proxies, current, tpc, tobs, calls, storeVars, orchVars,
                   urlVars, runVars, libVars>>

\* A read of the cursor followed by a separate write: a call that runs while
\* another call is in flight may read the value that call read.
get_next_fetch_racy(t) ==
    /\ tpc[t] = "idle"
    /\ Len(proxies) > 0
    /\ Len(calls) < MaxCalls
    /\ \E seen \in {current} \cup {tobs[o] : o \in {x \in Threads : tpc[x] = "fetched"}} :
          /\ tobs' = [tobs EXCEPT ![t] = seen]
          /\ current' = fetch_add(seen)
          /\ calls' = Append(calls, [obs |-> seen,
                                     idx |-> seen % Len(proxies)])
    /\ tpc' = [tpc EXCEPT ![t] = "fetched"]
    /\ UNCHANGED <<proxies, tret, storeVars, orchVars, urlVars, runVars, libVars>>

\* let idx = self.current.fetch_add(1, SeqCst) % self.proxies.len();
get_next_fetch(t) ==
    /\ tpc[t] = "idle"
    /\ Len(proxies) > 0
    /\ Len(calls) < MaxCalls
    /\ tobs' = [tobs EXCEPT ![t] = current]
    /\ current' = fetch_add(current)
    /\ calls' = Append(calls, [obs |-> current,
                               idx |-> current % Len(proxies)])
    /\ tpc' = [tpc EXCEPT ![t] = "fetched"]
    /\ UNCHANGED <<proxies, tret, storeVars, orchVars, urlVars, runVars, libVars>>

\* Some(&self.proxies[idx])
get_next_return(t) ==
    /\ tpc[t] = "fetched"
    /\ tret' = [tret EXCEPT ![t] = proxies[(tobs[t] % Len(proxies)) + 1]]
    /\ tpc' = [tpc EXCEPT ![t] = "idle"]
    /\ UNCHANGED <<proxies, current, tobs, calls, storeVars, orchVars, urlVars, runVars, libVars>>

InitProxyIdle ==
    /\ proxies = <<>>
    /\ current = 0
    /\ tpc = [t \in Threads |-> "idle"]
    /\ tobs = [t \in Threads |-> 0]
    /\ tret = [t \in Threads |-> NoReturn]
    /\ calls = <<>>

(***************************************************************************)
(* URL canonicalizer.  A string is a sequence of one-character strings;    *)
(* offsets count from 0 as in the source.                                  *)
(***************************************************************************)
UpperCase == {"A", "B", "H", "T", "P"}
LowerCase == {"a", "b", "h", "t", "p", "x", "y", "f"}
Digits == {"1", "2"}

\* char::to_ascii_lowercase
LowerChar(c) ==
    CASE c = "A" -> "a" [] c = "B" -> "b" [] c = "H" -> "h"
      [] c = "T" -> "t" [] c = "P" -> "p" [] OTHER -> c

\* str::to_lowercase
to_lowercase(s) == [i \in 1..Len(s) |-> LowerChar(s[i])]

\* The byte of a character, which is what str::cmp compares.
Byte(c) ==
    CASE c = "#" -> 35 [] c = "&" -> 38 [] c = "." -> 46 [] c = "/" -> 47
      [] c = "1" -> 49 [] c = "2" -> 50 [] c = ":" -> 58 [] c = "=" -> 61
      [] c = "?" -> 63 [] c = "@" -> 64
      [] c = "A" -> 65 [] c = "B" -> 66 [] c = "H" -> 72 [] c = "P" -> 80
      [] c = "T" -> 84
      [] c = "a" -> 97 [] c = "b" -> 98 [] c = "f" -> 102 [] c = "h" -> 104
      [] c = "p" -> 112 [] c = "t" -> 116 [] c = "x" -> 120 [] c = "y" -> 121

\* Option::None of str::find
NotFound == -1

SetMin(S) == CHOOSE x \in S : \A y \in S : x <= y
SetMax(S) == CHOOSE x \in S : \A y \in S : x >= y

\* &s[a..b]
Slice(s, a, b) == SubSeq(s, a + 1, b)

\* The offsets at which pat occurs in s.
Occurrences(s, pat) ==
    {i \in 0..(Len(s) - Len(pat)) : Slice(s, i, i + Len(pat)) = pat}

\* The smallest and the largest offset of a set of offsets, None for no offset.
FirstOf(S) == IF S = {} THEN NotFound ELSE SetMin(S)
LastOf(S) == IF S = {} THEN NotFound ELSE SetMax(S)

\* str::find: the offset of the first occurrence.
Find(s, pat) == FirstOf(Occurrences(s, pat))

\* str::rfind: the offset of the last occurrence.
RFind(s, pat) == LastOf(Occurrences(s, pat))

\* Option::unwrap_or
unwrap_or(pos, default) == IF pos = NotFound THEN default ELSE pos

\* s.find(c).unwrap_or(s.len())
FindOrLen(s, pat) == unwrap_or(Find(s, pat), Len(s))

\* str::split(sep).collect(): the pieces between the separators, empty ones
\* kept; SplitAt is given the offset of the first separator.
RECURSIVE Split(_, _)
SplitAt(s, sep, pos) ==
    IF pos = NotFound THEN <<s>>
    ELSE <<Slice(s, 0, pos)>> \o Split(Slice(s, pos + 1, Len(s)), sep)

Split(s, sep) == SplitAt(s, sep, Find(s, <<sep>>))

\* str::cmp(a, b) = Less: byte-wise lexicographic order.
RECURSIVE StrLess(_, _)
StrLess(a, b) ==
    IF b = <<>> THEN FALSE
    ELSE IF a = <<>> THEN TRUE
    ELSE IF Byte(a[1]) # Byte(b[1]) THEN Byte(a[1]) < Byte(b[1])
    ELSE StrLess(Tail(a), Tail(b))

(***************************************************************************)
(* Url::parse of the `url` crate, for the strings of this model.  A string *)
(* with no scheme ("letters:") in front is a relative URL and an error.    *)
(* The schemes written here are http in some letter case, a special        *)
(* scheme: the slashes after the colon are skipped, the authority ends at  *)
(* the first '/', '?' or '#', userinfo ends at the last '@', a port        *)
(* follows the last ':', an empty host and a port that is not a number are *)
(* errors, and scheme() and host_str() are lower-cased.                    *)
(***************************************************************************)

\* The host and the port of "host[:port]", split at offset pcolon.
HostPort(hostport, pcolon) ==
    IF pcolon = NotFound THEN [host |-> hostport, port |-> <<>>]
    ELSE [host |-> Slice(hostport, 0, pcolon),
          port |-> Slice(hostport, pcolon + 1, Len(hostport))]

\* The result of Url::parse for a scheme and a split authority.
CheckHost(scheme, hp) ==
    IF \/ hp.host = <<>>
       \/ \E i \in 1..Len(hp.port) : hp.port[i] \notin Digits
       \/ \E i \in 1..Len(hp.host) :
             hp.host[i] \notin (UpperCase \cup LowerCase \cup Digits \cup {"."})
    THEN [ok |-> FALSE]
    ELSE [ok |-> TRUE, scheme |-> to_lowercase(scheme),
          host_str |-> to_lowercase(hp.host)]

\* The authority without "userinfo@"; at is the offset of the last '@'.
StripUserinfo(auth, at) == Slice(auth, at + 1, Len(auth))

ParseHostPort(scheme, hostport) ==
    CheckHost(scheme, HostPort(hostport, RFind(hostport, <<":">>)))

\* The authority: the text up to the first '/', '?' or '#'.
AuthorityOf(tail) ==
    Slice(tail, 0, SetMin({FindOrLen(tail, <<"/">>), FindOrLen(tail, <<"?">>),
                           FindOrLen(tail, <<"#">>)}))

ParseAuthority(scheme, auth) ==
    ParseHostPort(scheme, StripUserinfo(auth, RFind(auth, <<"@">>)))

\* The text from the offsets in nonSlash on: what follows the leading slashes.
DropSlashes(rest, nonSlash) ==
    IF nonSlash = {} THEN <<>> ELSE Slice(rest, SetMin(nonSlash), Len(rest))

SkipSlashes(rest) ==
    DropSlashes(rest, {i \in 0..(Len(rest) - 1) : rest[i + 1] # "/"})

\* Url::parse given the offset of the first ':'.
ParseScheme(s, colon) ==
    IF \/ colon = NotFound
       \/ colon = 0
       \/ \E i \in 1..colon : s[i] \notin (UpperCase \cup LowerCase)
    THEN [ok |-> FALSE]
    ELSE ParseAuthority(Slice(s, 0, colon),
                        AuthorityOf(SkipSlashes(Slice(s, colon + 1, Len(s)))))

UrlParse(s) == ParseScheme(s, Find(s, <<":">>))

\* path.split('/').filter(|s| !s.is_empty()).count()
Depth(path) == Len(SelectSeq(Split(path, "/"), LAMBDA seg : seg # <<>>))

(***************************************************************************)
(* UrlRef::from_str: the components as substrings of the original string,  *)
(* located with str::find.  kind is "Ok", "Err" (the `?` on Url::parse or  *)
(* on a find that returned None) or "Panic" (a slice whose start is past   *)
(* its end).                                                               *)
(***************************************************************************)

\* &full_url[start..start + str.len()], or "" for an empty str.
Located(full_url, str, start) ==
    IF str # <<>> THEN Slice(full_url, start, start + Len(str)) ELSE <<>>

\* path_start
PathStart(full_url, hostname) ==
    IF hostname # <<>> THEN Find(full_url, hostname) + Len(hostname)
    ELSE unwrap_or(Find(full_url, <<":">>), 0) + 1

\* path, query, fragment and depth, cut at the offsets found.
Cut(full_url, protocol, hostname, path_start, query_start, fragment_start) ==
    LET end_of_path == IF query_start < fragment_start
                       THEN query_start ELSE fragment_start
    IN  IF path_start > end_of_path THEN [kind |-> "Panic"]
        ELSE [kind |-> "Ok",
              full_url |-> full_url,
              protocol |-> protocol,
              hostname |-> hostname,
              path |-> Slice(full_url, path_start, end_of_path),
              query |-> IF query_start < fragment_start
                        THEN Slice(full_url, query_start, fragment_start)
                        ELSE <<>>,
              fragment |-> IF fragment_start < Len(full_url)
                           THEN Slice(full_url, fragment_start, Len(full_url))
                           ELSE <<>>,
              depth |-> Depth(Slice(full_url, path_start, end_of_path))]

Components(full_url, protocol, hostname) ==
    Cut(full_url, protocol, hostname, PathStart(full_url, hostname),
        FindOrLen(full_url, <<"?">>), FindOrLen(full_url, <<"#">>))

\* The two finds of from_str and their ok_or_else.
Locate(full_url, protocol_str, hostname_str, pstart, hstart) ==
    IF protocol_str # <<>> /\ pstart = NotFound THEN [kind |-> "Err"]
    ELSE IF hostname_str # <<>> /\ hstart = NotFound THEN [kind |-> "Err"]
    ELSE Components(full_url, Located(full_url, protocol_str, pstart),
                    Located(full_url, hostname_str, hstart))

FromParsed(full_url, parsed) ==
    IF ~parsed.ok THEN [kind |-> "Err"]
    ELSE Locate(full_url, parsed.scheme, parsed.host_str,
                Find(full_url, parsed.scheme), Find(full_url, parsed.host_str))

from_str(full_url) == FromParsed(full_url, UrlParse(full_url))

\* One "key[=value]" piece of the query as the pair (key, value); pos is the
\* offset of its first '='.
PairAt(pair, pos) ==
    IF pos # NotFound
    THEN <<Slice(pair, 0, pos), Slice(pair, pos + 1, Len(pair))>>
    ELSE <<pair, <<>> >>

ParsePair(pair) == PairAt(pair, Find(pair, <<"=">>))

\* The pairs of the pieces, in the order written.
PairsOf(pieces) == [i \in 1..Len(pieces) |-> ParsePair(pieces[i])]

ParseParams(query_str) == PairsOf(Split(query_str, "&"))

\* params.sort_by(|a, b| a.0.cmp(b.0)): a stable sort on the key; an element
\* goes behind every element whose key is not greater than its own.
InsertAfter(sorted, last, n) ==
    SubSeq(sorted, 1, n) \o <<last>> \o SubSeq(sorted, n + 1, Len(sorted))

InsertStable(sorted, last) ==
    InsertAfter(sorted, last,
                unwrap_or(LastOf({i \in 1..Len(sorted) :
                                     ~StrLess(last[1], sorted[i][1])}), 0))

RECURSIVE SortByKey(_)
SortByKey(params) ==
    IF params = <<>> THEN <<>>
    ELSE InsertStable(SortByKey(SubSeq(params, 1, Len(params) - 1)),
                      params[Len(params)])

\* The text of one pair: "k" for an empty value and "k=v" otherwise.
PairText(kv) == IF kv[2] = <<>> THEN kv[1] ELSE kv[1] \o <<"=">> \o kv[2]

\* The loop that writes the sorted pairs, '&' between them.
RECURSIVE JoinParams(_)
JoinParams(params) ==
    IF params = <<>> THEN <<>>
    ELSE IF Len(params) = 1 THEN PairText(params[1])
    ELSE JoinParams(SubSeq(params, 1, Len(params) - 1)) \o <<"&">>
            \o PairText(params[Len(params)])

\* The trailing-slash trim of normalize.
TrimPath(path) ==
    IF Len(path) > 1 /\ path[Len(path)] = "/"
    THEN Slice(path, 0, Len(path) - 1)
    ELSE path

\* The query part of normalize.
QueryPart(query) ==
    IF query # <<>> /\ Len(query) > 1
    THEN <<"?">> \o JoinParams(SortByKey(ParseParams(Slice(query, 1, Len(query)))))
    ELSE <<>>

\* UrlRef::normalize
normalize(u) ==
    to_lowercase(u.protocol) \o <<":", "/", "/">> \o to_lowercase(u.hostname)
       \o TrimPath(IF u.path = <<>> THEN <<"/">> ELSE u.path)
       \o QueryPart(u.query)

\* The match of normalize_url: the input itself when from_str fails.
Outcome(url, r) ==
    IF r.kind = "Ok" THEN normalize(r)
    ELSE IF r.kind = "Err" THEN url
    ELSE <<"!", "p", "a", "n", "i", "c">>

normalize_url(url) == Outcome(url, from_str(url))

(***************************************************************************)
(* The raw urls the canonicalizer is run on, written from components.      *)
(***************************************************************************)
MaxTrailingSlashes == 2
MaxParams == 2

NoScheme == <<>>
Schemes == {<<"h", "t", "t", "p">>, <<"H", "T", "T", "P">>, NoScheme}
Hosts == {<<"a", ".", "b">>, <<"A", ".", "b">>}
PathStems == {<<>>, <<"/", "x">>, <<"/", "x", "/", "y">>}
ParamTexts == {<<>>, <<"=">>, <<"a", "=", "1">>, <<"a", "=", "2">>,
               <<"b", "=", "2">>}
Fragments == {<<>>, <<"#", "f">>}

Slashes(n) == [i \in 1..n |-> "/"]
ParamLists == UNION {[1..n -> ParamTexts] : n \in 0..MaxParams}

RECURSIVE JoinWith(_, _)
JoinWith(pieces, sep) ==
    IF pieces = <<>> THEN <<>>
    ELSE IF Len(pieces) = 1 THEN pieces[1]
    ELSE pieces[1] \o <<sep>> \o JoinWith(Tail(pieces), sep)

AllParts ==
    [scheme : Schemes, host : Hosts, stem : PathStems,
     slashes : 0..MaxTrailingSlashes, params : ParamLists, fragment : Fragments]

PathText(p) == p.stem \o Slashes(p.slashes)
QueryText(p) == IF p.params = <<>> THEN <<>>
                ELSE <<"?">> \o JoinWith(p.params, "&")

\* The raw url: scheme "://" host path [ "?" query ] [ "#" fragment ], or the
\* same without scheme and "://" (a relative url).
RawUrl(p) ==
    (IF p.scheme = NoScheme THEN <<>> ELSE p.scheme \o <<":", "/", "/">>)
       \o p.host \o PathText(p) \o QueryText(p) \o p.fragment

Reverse(q) == [i \in 1..Len(q) |-> q[Len(q) + 1 - i]]

\* The urls a url is compared with: itself, the urls that differ from it in
\* the letter case of scheme and host, the url with its query parameters in
\* the opposite order, and the url with one more trailing slash.
Variants(p) ==
    {[p EXCEPT !.scheme = sc, !.host = h] :
        sc \in {x \in Schemes : to_lowercase(x) = to_lowercase(p.scheme)},
        h \in {x \in Hosts : to_lowercase(x) = to_lowercase(p.host)}}
    \cup {[p EXCEPT !.params = Reverse(p.params)]}
    \cup (IF p.slashes < MaxTrailingSlashes
          THEN {[p EXCEPT !.slashes = p.slashes + 1]} ELSE {})

NotRun == <<"-">>

InitUrlIdle ==
    /\ upc = "idle"
    /\ partsA = [scheme |-> NoScheme] /\ partsB = [scheme |-> NoScheme]
    /\ normA = NotRun /\ normB = NotRun /\ normAA = NotRun

\* normalize_url on the first raw url.
normalize_first ==
    /\ upc = "raw"
    /\ normA' = normalize_url(RawUrl(partsA))
    /\ upc' = "first"
    /\ UNCHANGED <<partsA, partsB, normB, normAA, storeVars, orchVars, proxyVars, runVars, libVars>>

\* normalize_url on the second raw url.
normalize_second ==
    /\ upc = "first"
    /\ normB' = normalize_url(RawUrl(partsB))
    /\ upc' = "both"
    /\ UNCHANGED <<partsA, partsB, normA, normAA, storeVars, orchVars, proxyVars, runVars, libVars>>

\* normalize_url on what normalize_url returned for the first raw url.
normalize_again ==
    /\ upc = "both"
    /\ normAA' = normalize_url(normA)
    /\ upc' = "again"
    /\ UNCHANGED <<partsA, partsB, normA, normB, storeVars, orchVars, proxyVars, runVars, libVars>>

(***************************************************************************)
(* Crawler::run: one run of the orchestrator with its fetcher task, its    *)
(* subscription, its cancel token and its status sink.                     *)
(***************************************************************************)
NoChan == [buf |-> <<>>, lagged |-> FALSE, closed |-> FALSE]
NoCancel == [fired |-> FALSE, taken |-> 0, pc |-> "-"]
NoReturnYet == [kind |-> "none", by |-> "-"]

\* No run is going on: the Crawler is the one main.rs makes (no proxies).
InitRunIdle ==
    /\ crawler = Crawler_new(0)
    /\ rargs = [resume |-> FALSE]
    /\ rpc = "idle"
    /\ rcur = NotRun
    /\ rcache = {}
    /\ chan = NoChan
    /\ fetcher = [state |-> "unspawned", sent |-> <<>>]
    /\ cancel = NoCancel
    /\ sink = [tx |-> "None", got |-> <<>>]
    /\ rlog = <<>>
    /\ rret = NoReturnYet

\* Capacity of the subscription (website.subscribe(8)), scaled down, and the
\* number of events the fetcher sends at most.
ChanCap == 2
MaxEvents == 3

\* The raw urls of the fetcher's events: a page, the same page with a
\* trailing slash, the root, and a relative url (Url::parse fails on it).
RunUrls ==
    << <<"h", "t", "t", "p", ":", "/", "/", "a", ".", "b", "/", "x">>,
       <<"h", "t", "t", "p", ":", "/", "/", "a", ".", "b", "/", "x", "/">>,
       <<"h", "t", "t", "p", ":", "/", "/", "a", ".", "b">>,
       <<"a", ".", "b", "/", "x">> >>
Events == 1..Len(RunUrls)

\* normalize_url(&raw_url) for the raw url of each event.
Keys == [e \in Events |-> normalize_url(RunUrls[e])]

\* let url = normalize_url(&raw_url) for event e
KeyOf(e) == Keys[e]

\* start_url, and the canonical url an earlier run has recorded.
StartUrl == RunUrls[1]
RecordedKey == KeyOf(1)

\* The crawl's row in `results` left by an earlier run, with that run's data.
RecordedRows ==
    << [id |-> 1, crawl_id |-> OrchCrawl, url |-> RecordedKey,
        data |-> to_string(NumData)] >>

\* The crawl's row in `frontier` left by an earlier run that started fresh.
RecordedFrontier == InsertOrIgnoreFrontier(<<>>, OrchCrawl, StartUrl, 0)

\* Sender::send of the broadcast channel behind the subscription: it never
\* waits; when the receiver holds ChanCap unread events the oldest one is
\* overwritten and the receiver has lagged.
chan_send(ch, e) ==
    IF Len(ch.buf) < ChanCap
    THEN [ch EXCEPT !.buf = Append(@, e)]
    ELSE [ch EXCEPT !.buf = Append(Tail(@), e), !.lagged = TRUE]

\* What rx2.recv() resolves to: "Lagged" and "Closed" are its two errors,
\* "Pending" is a recv that does not resolve yet.
recv_outcome(ch) ==
    IF ch.lagged THEN "Lagged"
    ELSE IF ch.buf # <<>> THEN "Ok"
    ELSE IF ch.closed THEN "Closed"
    ELSE "Pending"

\* tx.send(url): the receiver gets the url when it is alive; the result of
\* send is dropped (`let _ =`).
status_send(s, url) ==
    IF s.tx = "Live" THEN [s EXCEPT !.got = Append(@, url)] ELSE s

\* Lines 49-84: configuration, one get_next when the Crawler holds a
\* ProxyManager, then the cache is seeded from the persisted results when the
\* read succeeds (`if let Ok(visited)`).
run_seed_cache(io) ==
    /\ rpc = "start"
    /\ current' = IF crawler.proxy_manager = "Some" /\ Len(proxies) > 0
                  THEN fetch_add(current) ELSE current
    /\ rcache' = IF io = "ok"
                 THEN extend(rcache, get_visited_urls(results, OrchCrawl))
                 ELSE rcache
    /\ rpc' = "frontier"
    /\ UNCHANGED <<crawler, rargs, rcur, chan, fetcher, cancel, sink, rlog, rret,
                   proxies, tpc, tobs, tret, calls, storeVars, orchVars, urlVars, libVars>>

\* website.subscribe(8) and tokio::spawn(website.crawl()).
subscribe_and_spawn ==
    /\ chan' = NoChan
    /\ fetcher' = [fetcher EXCEPT !.state = "running"]
    /\ rpc' = "select"
    /\ rret' = rret

\* A resume that propagates the error of get_pending_frontier with `?`.
run_resume_checked(io) ==
    /\ rpc = "frontier"
    /\ rargs.resume
    /\ IF io = "ok"
       THEN get_pending_frontier(OrchCrawl, MaxLimit) /\ subscribe_and_spawn
       ELSE /\ rpc' = "done"
            /\ rret' = [kind |-> "Err", by |-> "get_pending_frontier"]
            /\ UNCHANGED <<storeVars, chan, fetcher>>
    /\ UNCHANGED <<crawler, rargs, rcur, rcache, cancel, sink, rlog,
                   proxyVars, orchVars, urlVars, libVars>>

\* Lines 86-96 with resume: the pending frontier is read and dropped,
\* whether the read succeeds or not.
run_resume(io) ==
    /\ rpc = "frontier"
    /\ rargs.resume
    /\ IF io = "ok" THEN get_pending_frontier(OrchCrawl, MaxLimit)
       ELSE UNCHANGED storeVars
    /\ subscribe_and_spawn
    /\ UNCHANGED <<crawler, rargs, rcur, rcache, cancel, sink, rlog,
                   proxyVars, orchVars, urlVars, libVars>>

\* Lines 97-102 without resume: add_to_frontier(crawl_id, [(start_url, 0)])
\* followed by `?`; k = 0 is the statement failing.
run_seed_frontier(k) ==
    /\ rpc = "frontier"
    /\ ~rargs.resume
    /\ add_to_frontier(OrchCrawl, << <<StartUrl, 0>> >>, k)
    /\ IF k = 1 THEN subscribe_and_spawn
       ELSE /\ rpc' = "done"
            /\ rret' = [kind |-> "Err", by |-> "add_to_frontier"]
            /\ UNCHANGED <<chan, fetcher>>
    /\ UNCHANGED <<crawler, rargs, rcur, rcache, cancel, sink, rlog,
                   proxyVars, orchVars, urlVars, libVars>>

\* A loop that looks at the token only when an event has come in since the
\* token was cancelled.
run_cancelled_after_event ==
    /\ rpc = "select"
    /\ cancel.fired
    /\ Len(rlog) > cancel.taken
    /\ fetcher' = [fetcher EXCEPT !.state = IF @ = "running" THEN "aborted" ELSE @]
    /\ chan' = [chan EXCEPT !.closed = TRUE]
    /\ rpc' = "done"
    /\ rret' = [kind |-> "Ok", by |-> "cancelled"]
    /\ UNCHANGED <<crawler, rargs, rcur, rcache, cancel, sink, rlog,
                   storeVars, proxyVars, orchVars, urlVars, libVars>>

\* select! takes the branch of cancel_token.cancelled(): abort the fetcher
\* task and break.
run_cancelled ==
    /\ rpc = "select"
    /\ cancel.fired
    /\ fetcher' = [fetcher EXCEPT !.state = IF @ = "running" THEN "aborted" ELSE @]
    /\ chan' = [chan EXCEPT !.closed = TRUE]
    /\ rpc' = "done"
    /\ rret' = [kind |-> "Ok", by |-> "cancelled"]
    /\ UNCHANGED <<crawler, rargs, rcur, rcache, cancel, sink, rlog,
                   storeVars, proxyVars, orchVars, urlVars, libVars>>

\* A handler without the is_cached test: every event goes on to save_result.
run_recv_ok_no_dedup ==
    /\ rpc = "select"
    /\ recv_outcome(chan) = "Ok"
    /\ chan' = [chan EXCEPT !.buf = Tail(@)]
    /\ rlog' = Append(rlog, Head(chan.buf))
    /\ rpc' = "save"
    /\ rcur' = KeyOf(Head(chan.buf))
    /\ UNCHANGED <<crawler, rargs, rcache, fetcher, cancel, sink, rret,
                   storeVars, proxyVars, orchVars, urlVars, libVars>>

\* select! takes the branch of rx2.recv() and gets Ok(res): normalize the
\* url, `continue` when it is cached, otherwise go on to save_result.
run_recv_ok ==
    /\ rpc = "select"
    /\ recv_outcome(chan) = "Ok"
    /\ chan' = [chan EXCEPT !.buf = Tail(@)]
    /\ rlog' = Append(rlog, Head(chan.buf))
    /\ IF is_cached(rcache, KeyOf(Head(chan.buf)))
       THEN UNCHANGED <<rpc, rcur>>
       ELSE /\ rpc' = "save"
            /\ rcur' = KeyOf(Head(chan.buf))
    /\ UNCHANGED <<crawler, rargs, rcache, fetcher, cancel, sink, rret,
                   storeVars, proxyVars, orchVars, urlVars, libVars>>

\* select! takes the branch of rx2.recv() and gets Err(_): break.
run_recv_err ==
    /\ rpc = "select"
    /\ recv_outcome(chan) \in {"Lagged", "Closed"}
    /\ chan' = [chan EXCEPT !.lagged = FALSE]
    /\ rpc' = "done"
    /\ rret' = [kind |-> "Ok", by |-> recv_outcome(chan)]
    /\ UNCHANGED <<crawler, rargs, rcur, rcache, fetcher, cancel, sink, rlog,
                   storeVars, proxyVars, orchVars, urlVars, libVars>>

\* A run that inserts the url into the dedup cache before it saves.
run_save_cache_first(io) ==
    /\ rpc = "save"
    /\ save_result(OrchCrawl, rcur, ExtractedData(1), io)
    /\ rcache' = cache(rcache, rcur)
    /\ IF io = "ok" THEN rpc' = "emit" /\ rret' = rret
       ELSE /\ rpc' = "done"
            /\ rret' = [kind |-> "Err", by |-> "save_result"]
    /\ UNCHANGED <<crawler, rargs, rcur, chan, fetcher, cancel, sink,
                   rlog, proxyVars, orchVars, urlVars, libVars>>

\* A run that drops the error of save_result and goes on to cache and emit.
run_save_ignoring_error(io) ==
    /\ rpc = "save"
    /\ save_result(OrchCrawl, rcur, ExtractedData(1), io)
    /\ rpc' = "emit"
    /\ rret' = rret
    /\ UNCHANGED <<crawler, rargs, rcur, rcache, chan, fetcher, cancel, sink,
                   rlog, proxyVars, orchVars, urlVars, libVars>>

\* save_result(crawl_id, &url, &extracted_data).await?
run_save(io) ==
    /\ rpc = "save"
    /\ save_result(OrchCrawl, rcur, ExtractedData(1), io)
    /\ IF io = "ok" THEN rpc' = "emit" /\ rret' = rret
       ELSE /\ rpc' = "done"
            /\ rret' = [kind |-> "Err", by |-> "save_result"]
    /\ UNCHANGED <<crawler, rargs, rcur, rcache, chan, fetcher, cancel, sink,
                   rlog, proxyVars, orchVars, urlVars, libVars>>

\* A run that propagates the result of tx.send with `?`: an error when the
\* receiver is gone.
run_emit_checked ==
    /\ rpc = "emit"
    /\ rcache' = cache(rcache, rcur)
    /\ IF sink.tx = "Dropped"
       THEN /\ sink' = sink
            /\ rpc' = "done"
            /\ rret' = [kind |-> "Err", by |-> "status_tx"]
       ELSE /\ sink' = status_send(sink, rcur)
            /\ rpc' = "select"
            /\ rret' = rret
    /\ UNCHANGED <<crawler, rargs, rcur, chan, fetcher, cancel, rlog,
                   storeVars, proxyVars, orchVars, urlVars, libVars>>

\* cache_manager.cache(url); the status emission; back to the top of the loop.
run_emit ==
    /\ rpc = "emit"
    /\ rcache' = cache(rcache, rcur)
    /\ sink' = status_send(sink, rcur)
    /\ rpc' = "select"
    /\ UNCHANGED <<crawler, rargs, rcur, chan, fetcher, cancel, rlog, rret,
                   storeVars, proxyVars, orchVars, urlVars, libVars>>

\* The owner of cancel_token cancels it, at any moment of the run.
cancel_fire ==
    /\ rpc # "done"
    /\ ~cancel.fired
    /\ cancel' = [fired |-> TRUE, taken |-> Len(rlog), pc |-> rpc]
    /\ UNCHANGED <<crawler, rargs, rpc, rcur, rcache, chan, fetcher, sink, rlog,
                   rret, storeVars, proxyVars, orchVars, urlVars, libVars>>

\* The owner of the status receiver drops it.
drop_receiver ==
    /\ rpc # "done"
    /\ sink.tx = "Live"
    /\ sink' = [sink EXCEPT !.tx = "Dropped"]
    /\ UNCHANGED <<crawler, rargs, rpc, rcur, rcache, chan, fetcher, cancel,
                   rlog, rret, storeVars, proxyVars, orchVars, urlVars, libVars>>

\* The fetcher task sends a page to the subscription.  (Once run has returned
\* rx2 is gone and a send reaches no one.)
fetch_send(e) ==
    /\ rpc # "done"
    /\ fetcher.state = "running"
    /\ Len(fetcher.sent) < MaxEvents
    /\ fetcher' = [fetcher EXCEPT !.sent = Append(@, e)]
    /\ chan' = chan_send(chan, e)
    /\ UNCHANGED <<crawler, rargs, rpc, rcur, rcache, cancel, sink, rlog, rret,
                   storeVars, proxyVars, orchVars, urlVars, libVars>>

\* website.crawl() returns: the task ends, the website and its sender are
\* dropped and the stream is closed.
fetch_close ==
    /\ rpc # "done"
    /\ fetcher.state = "running"
    /\ fetcher' = [fetcher EXCEPT !.state = "closed"]
    /\ chan' = [chan EXCEPT !.closed = TRUE]
    /\ UNCHANGED <<crawler, rargs, rpc, rcur, rcache, cancel, sink, rlog, rret,
                   storeVars, proxyVars, orchVars, urlVars, libVars>>

(***************************************************************************)
(* The components modelled on their own: table `crawls`, CacheManager,     *)
(* UrlRef::from_str, UrlCollection and the field extraction of a page.     *)
(***************************************************************************)
\* ---- table `crawls` ----
\* Rows the table holds at most, seconds the clock runs through, and the
\* names a crawl is created with.
MaxCrawls == 3
MaxClock == 2
NumNames == 2
CrawlNames == 1..NumNames

\* A crawl some earlier session left behind with another status.
FinishedCrawl ==
    [id |-> 1, name |-> 1, status |-> "completed", created_at |-> 0,
     updated_at |-> 0]

\* id INTEGER PRIMARY KEY AUTOINCREMENT: one more than the largest id the
\* table has held; no statement of the program deletes from `crawls`, and
\* rows are kept in the order of their insertion.
NextRowId(rows) == IF rows = <<>> THEN 1 ELSE rows[Len(rows)].id + 1

\* INSERT INTO crawls (name, status) VALUES (?, 'active'), the two
\* timestamps falling back on DEFAULT CURRENT_TIMESTAMP.
NewCrawlRow(rows, name, now) ==
    [id |-> NextRowId(rows), name |-> name, status |-> "active",
     created_at |-> now, updated_at |-> now]

\* WHERE status = 'active'
ActiveCrawls(rows) ==
    {rows[i] : i \in {j \in 1..Len(rows) : rows[j].status = "active"}}

\* ORDER BY updated_at DESC LIMIT 1: the rows one of which comes first;
\* SQLite leaves the order of rows with equal keys open.
NewestFirst(rows) ==
    {r \in ActiveCrawls(rows) :
        \A q \in ActiveCrawls(rows) : q.updated_at <= r.updated_at}

\* The same query ordered ASC.
OldestFirst(rows) ==
    {r \in ActiveCrawls(rows) :
        \A q \in ActiveCrawls(rows) : r.updated_at <= q.updated_at}

\* StateManager::create_crawl. The returned id is <<id>>.
create_crawl(name, io) ==
    /\ Len(crawls) < MaxCrawls
    /\ IF io = "ok"
       THEN /\ crawls' = Append(crawls, NewCrawlRow(crawls, name, clock))
            /\ crawlRet' = [op |-> "create_crawl", kind |-> "Ok",
                            id |-> <<NextRowId(crawls)>>]
       ELSE /\ crawls' = crawls
            /\ crawlRet' = [op |-> "create_crawl", kind |-> "Err",
                            id |-> <<>>]
    /\ UNCHANGED <<clock, storeVars, orchVars, proxyVars, urlVars, runVars,
                   cacheVars, refVars, collVars, extractVars,
                   dashVars, confVars>>

\* get_active_crawl with the query ordered the other way round.
get_active_crawl_oldest(io) ==
    /\ IF io = "ok"
       THEN IF ActiveCrawls(crawls) = {}
            THEN crawlRet' = [op |-> "get_active_crawl", kind |-> "Ok",
                              id |-> <<>>]
            ELSE \E r \in OldestFirst(crawls) :
                    crawlRet' = [op |-> "get_active_crawl", kind |-> "Ok",
                                 id |-> <<r.id>>]
       ELSE crawlRet' = [op |-> "get_active_crawl", kind |-> "Err",
                         id |-> <<>>]
    /\ UNCHANGED <<crawls, clock, storeVars, orchVars, proxyVars, urlVars,
                   runVars, cacheVars, refVars, collVars, extractVars,
                   dashVars, confVars>>

\* StateManager::get_active_crawl: fetch_optional gives None (<<>>) when the
\* query has no row, Some(id) (<<id>>) otherwise.
get_active_crawl(io) ==
    /\ IF io = "ok"
       THEN IF ActiveCrawls(crawls) = {}
            THEN crawlRet' = [op |-> "get_active_crawl", kind |-> "Ok",
                              id |-> <<>>]
            ELSE \E r \in NewestFirst(crawls) :
                    crawlRet' = [op |-> "get_active_crawl", kind |-> "Ok",
                                 id |-> <<r.id>>]
       ELSE crawlRet' = [op |-> "get_active_crawl", kind |-> "Err",
                         id |-> <<>>]
    /\ UNCHANGED <<crawls, clock, storeVars, orchVars, proxyVars, urlVars,
                   runVars, cacheVars, refVars, collVars, extractVars,
                   dashVars, confVars>>

\* A second passes: CURRENT_TIMESTAMP has the resolution of one second, so
\* two crawls created within it carry the same updated_at.
clock_tick ==
    /\ clock < MaxClock
    /\ clock' = clock + 1
    /\ UNCHANGED <<crawls, crawlRet, storeVars, orchVars, proxyVars, urlVars,
                   runVars, cacheVars, refVars, collVars, extractVars,
                   dashVars, confVars>>

InitCrawlIdle ==
    /\ crawls = <<>>
    /\ clock = 0
    /\ crawlRet = NoCall

\* ---- CacheManager ----
\* Keys the cache is asked about and the length of the list extend is given.
NumKeys == 3
MaxExtend == 2
CacheKeys == 1..NumKeys
KeyLists == UNION {[1..n -> CacheKeys] : n \in 0..MaxExtend}

\* The elements of a Vec, as HashSet::extend takes them one after another.
Elements(list) == {list[i] : i \in 1..Len(list)}

\* CacheManager::extend on the manager of its own.
cache_extend(list) ==
    /\ ccache' = extend(ccache, Elements(list))
    /\ cop' = [op |-> "extend", arg |-> list, before |-> ccache,
               ret |-> FALSE]
    /\ UNCHANGED <<storeVars, orchVars, proxyVars, urlVars, runVars,
                   crawlVars, refVars, collVars, extractVars,
                   dashVars, confVars>>

\* CacheManager::cache that starts from an empty set.
cache_cache_clearing(k) ==
    /\ ccache' = cache({}, k)
    /\ cop' = [op |-> "cache", arg |-> <<k>>, before |-> ccache,
               ret |-> FALSE]
    /\ UNCHANGED <<storeVars, orchVars, proxyVars, urlVars, runVars,
                   crawlVars, refVars, collVars, extractVars,
                   dashVars, confVars>>

\* CacheManager::cache on the manager of its own.
cache_cache(k) ==
    /\ ccache' = cache(ccache, k)
    /\ cop' = [op |-> "cache", arg |-> <<k>>, before |-> ccache,
               ret |-> FALSE]
    /\ UNCHANGED <<storeVars, orchVars, proxyVars, urlVars, runVars,
                   crawlVars, refVars, collVars, extractVars,
                   dashVars, confVars>>

\* CacheManager::is_cached on the manager of its own: a read.
cache_is_cached(k) ==
    /\ cop' = [op |-> "is_cached", arg |-> <<k>>, before |-> ccache,
               ret |-> is_cached(ccache, k)]
    /\ UNCHANGED <<ccache, storeVars, orchVars, proxyVars, urlVars, runVars,
                   crawlVars, refVars, collVars, extractVars,
                   dashVars, confVars>>
\* ---- UrlRef::from_str on absolute urls with userinfo and port ----
\* The number of path segments of the urls from_str is called on.
MaxSegments == 2

NoRef == [kind |-> "none"]

RefUserinfos == {<<>>, <<"b", "@">>, <<"a", ".", "b", "@">>}
RefHosts == {<<"a", ".", "b">>, <<"t", "p">>}
RefPorts == {<<>>, <<":", "1">>}
RefQueries == {<<>>, <<"?", "a", "=", "1">>}
RefFragments == {<<>>, <<"#", "f">>}

\* n segments "/x", and the paths made of them with slashes behind.
RECURSIVE Segments(_)
Segments(n) == IF n = 0 THEN <<>> ELSE Segments(n - 1) \o <<"/", "x">>

RefPaths ==
    {Segments(n) \o t : n \in 0..MaxSegments, t \in {<<>>, <<"/">>, <<"/", "/">>}}

RefParts ==
    [userinfo : RefUserinfos, host : RefHosts, port : RefPorts,
     path : RefPaths, query : RefQueries, fragment : RefFragments]

\* The absolute url written from its components.
RefUrl(p) ==
    <<"h", "t", "t", "p", ":", "/", "/">> \o p.userinfo \o p.host \o p.port
        \o p.path \o p.query \o p.fragment

\* A call of UrlRef::from_str on the url of furl.
ref_from_str ==
    /\ fref = NoRef
    /\ fref' = from_str(RefUrl(furl))
    /\ UNCHANGED <<furl, storeVars, orchVars, proxyVars, urlVars, runVars,
                   crawlVars, cacheVars, collVars, extractVars,
                   dashVars, confVars>>

\* The UrlRef is dropped and the next url is taken up.
ref_next ==
    /\ fref # NoRef
    /\ fref' = NoRef
    /\ furl' \in RefParts
    /\ UNCHANGED <<storeVars, orchVars, proxyVars, urlVars, runVars,
                   crawlVars, cacheVars, collVars, extractVars,
                   dashVars, confVars>>
\* ---- UrlCollection and TreeNode ----
\* The number of calls of UrlCollection::add.
MaxAdds == 3

\* The urls the collection is given, by their components: /x, /x/y and /x/
\* (the key of /x) of one host, /y of that host at a port, and /x of another
\* host.
CollPart(host, port, path) ==
    [userinfo |-> <<>>, host |-> host, port |-> port, path |-> path,
     query |-> <<>>, fragment |-> <<>>]

CollParts ==
    << CollPart(<<"a", ".", "b">>, <<>>, <<"/", "x">>),
       CollPart(<<"a", ".", "b">>, <<>>, <<"/", "x", "/", "y">>),
       CollPart(<<"a", ".", "b">>, <<>>, <<"/", "x", "/">>),
       CollPart(<<"a", ".", "b">>, <<":", "1">>, <<"/", "y">>),
       CollPart(<<"b", ".", "a">>, <<>>, <<"/", "x">>) >>

CollUrls == [i \in 1..Len(CollParts) |-> RefUrl(CollParts[i])]
CollInputs == 1..Len(CollUrls)

\* UrlCollection::new: no url and no tree.  unique_urls is the set of its
\* (key, url) entries; nodes holds every TreeNode of every tree, named by
\* the host of its root and the segments that lead to it from there.
EmptyColl == [unique_urls |-> {}, nodes |-> {}]

\* UrlRef::path_segments
path_segments(u) == SelectSeq(Split(u.path, "/"), LAMBDA seg : seg # <<>>)

\* TreeNode::new, at its place in the tree of host.
TreeNode_new(host, path, node_type) ==
    [host |-> host, path |-> path, node_type |-> node_type, urls |-> <<>>]

\* children.contains_key along the path.
HasNode(nodes, host, path) ==
    \E n \in nodes : n.host = host /\ n.path = path

\* The nodes or_insert_with creates in the loop of TreeNode::insert: one for
\* each segment no node is at yet, File for the last segment of this url
\* and Folder for the others.
Created(nodes, host, segments) ==
    {TreeNode_new(host, SubSeq(segments, 1, i),
                  IF i = Len(segments) THEN "File" ELSE "Folder") :
        i \in {j \in 1..Len(segments) :
                  ~HasNode(nodes, host, SubSeq(segments, 1, j))}}

\* current.urls.push(url)
Push(nodes, host, path, url) ==
    {IF n.host = host /\ n.path = path
     THEN [n EXCEPT !.urls = Append(@, url)] ELSE n : n \in nodes}

\* TreeNode::insert on the root of host.
TreeNode_insert(nodes, host, url) ==
    Push(nodes \cup Created(nodes, host, path_segments(url)), host,
         path_segments(url), url)

\* hierarchies.entry(host).or_insert_with(|| TreeNode::new(host, Domain))
WithRoot(nodes, host) ==
    IF HasNode(nodes, host, <<>>) THEN nodes
    ELSE nodes \cup {TreeNode_new(host, <<>>, "Domain")}

\* unique_urls.contains_key
contains_key(c, key) == \E e \in c.unique_urls : e.key = key

\* unique_urls.insert: the entry of the key is replaced.
MapInsert(entries, key, url) ==
    {e \in entries : e.key # key} \cup {[key |-> key, url |-> url]}

\* The body of add behind its test.
AddNew(c, normalized, url) ==
    [unique_urls |-> MapInsert(c.unique_urls, normalized, url),
     nodes |-> TreeNode_insert(WithRoot(c.nodes, url.hostname),
                               url.hostname, url)]

\* UrlCollection::add
add(c, url) ==
    IF ~contains_key(c, normalize(url)) THEN AddNew(c, normalize(url), url)
    ELSE c

\* UrlCollection::unique_count
unique_count(c) == Cardinality(c.unique_urls)

\* hierarchies.len()
Hierarchies(c) == {n \in c.nodes : n.path = <<>>}

\* A caller parses the url and adds it: collection.add(UrlRef::from_str(..)?).
coll_add(e) ==
    /\ Len(cadded) < MaxAdds
    /\ from_str(CollUrls[e]).kind = "Ok"
    /\ coll' = add(coll, from_str(CollUrls[e]))
    /\ cadded' = Append(cadded, e)
    /\ UNCHANGED <<storeVars, orchVars, proxyVars, urlVars, runVars,
                   crawlVars, cacheVars, refVars, extractVars,
                   dashVars, confVars>>
\* ---- the field extraction of one page ----
\* The number of field names the selectors are configured for.
NumFields == 2
FieldNames == 1..NumFields

NoExtraction == [pc |-> "idle"]

Css == <<"c", "s", "s", ":">>
Xpath == <<"x", "p", "a", "t", "h", ":">>
Regex == <<"r", "e", "g", "e", "x", ":">>

\* The selectors a field is configured with: one for each engine prefix and
\* two without a prefix, one of them the beginning of a prefix.
SelectorTexts ==
    {Css \o <<"a">>, Xpath \o <<"a">>, Regex \o <<"a">>, <<"a">>, <<"x">>}

\* selectors: HashMap<String, String>, as the set of its (name, selector)
\* entries, one for a name at most.
SelectorMaps ==
    {m \in SUBSET [name : FieldNames, selector : SelectorTexts] :
        \A e1 \in m, e2 \in m : e1.name = e2.name => e1 = e2}

\* The selectors the extractor can be queried with, and a page as the set
\* of those that select something in its html.
FinalSelectors ==
    {Css \o <<"a">>, Xpath \o <<"a">>, Regex \o <<"a">>, Css \o <<"x">>}
Pages == SUBSET FinalSelectors

\* The url of the page, already normalized.
PageUrl == <<"h", "t", "t", "p", ":", "/", "/", "a", ".", "b", "/", "x">>

\* str::starts_with
starts_with(str, prefix) ==
    Len(str) >= Len(prefix) /\ SubSeq(str, 1, Len(prefix)) = prefix

\* final_selector
final_selector(selector) ==
    IF \/ starts_with(selector, Css)
       \/ starts_with(selector, Xpath)
       \/ starts_with(selector, Regex)
    THEN selector
    ELSE Css \o selector

\* cs.select(0, &final_selector) on the html of page: the first match as a
\* String, empty for no match.
select(page, final) == IF final \in page THEN <<"v">> ELSE <<>>

\* The queries of the loop over selectors, one for each entry.
Queries(selectors) ==
    {[name |-> e.name, selector |-> final_selector(e.selector)] :
        e \in selectors}

\* data after the loop with the is_empty test left out.
DataWithEmpty(page, selectors) ==
    {[name |-> e.name, value |-> select(page, final_selector(e.selector))] :
        e \in selectors}

\* data after the loop: serde_json::Map with the entries inserted.
Data(page, selectors) ==
    {d \in DataWithEmpty(page, selectors) : d.value # <<>>}

\* The extraction block with every value inserted.
extract_fields_keep_empty ==
    /\ xrec.pc = "event"
    /\ xrec' = [xrec EXCEPT !.pc = "save",
                            !.queried = Queries(xrec.selectors),
                            !.data = DataWithEmpty(xrec.page, xrec.selectors)]
    /\ UNCHANGED <<storeVars, orchVars, proxyVars, urlVars, runVars,
                   crawlVars, cacheVars, refVars, collVars,
                   dashVars, confVars>>

\* The extraction block of the handler of an event that is not cached.
extract_fields ==
    /\ xrec.pc = "event"
    /\ xrec' = [xrec EXCEPT !.pc = "save",
                            !.queried = Queries(xrec.selectors),
                            !.data = Data(xrec.page, xrec.selectors)]
    /\ UNCHANGED <<storeVars, orchVars, proxyVars, urlVars, runVars,
                   crawlVars, cacheVars, refVars, collVars,
                   dashVars, confVars>>

\* save_result(crawl_id, &url, &Value::Object(extracted_data)).await?
extract_save(io) ==
    /\ xrec.pc = "save"
    /\ save_result(OrchCrawl, PageUrl, xrec.data, io)
    /\ xrec' = [xrec EXCEPT !.pc = IF io = "ok" THEN "saved" ELSE "failed"]
    /\ UNCHANGED <<orchVars, proxyVars, urlVars, runVars,
                   crawlVars, cacheVars, refVars, collVars,
                   dashVars, confVars>>
InitCacheIdle ==
    /\ ccache = {}
    /\ cop = NoCall

InitRefIdle ==
    /\ furl = NotRun
    /\ fref = NoRef

InitCollIdle ==
    /\ coll = EmptyColl
    /\ cadded = <<>>

InitExtractIdle ==
    /\ xrec = NoExtraction

\* ---- SpiderConfig, ConfigLoader (config/schema.rs, config/loader.rs) ----
\* Configuration files on disk.  A path is a number: 1..NumFiles name the
\* files, MissingPath a path where no readable configuration is.
NumFiles == 3
Files == 1..NumFiles
MissingPath == NumFiles + 1
Paths == 1..MissingPath

\* A String is the sequence of its characters, a Vec the sequence of its
\* elements, an Option the empty sequence or a sequence of one value, a
\* HashMap a function on its keys.
EmptyMap == [k \in {} |-> 0]
EmptyString == 0

\* SpiderConfig::default() as serde fills an empty document in.
default_concurrency == 1
default_delay == 0
DefaultConfig ==
    [name |-> <<>>, start_urls |-> <<>>, selectors |-> EmptyMap,
     concurrency |-> default_concurrency, delay_ms |-> default_delay,
     respect_robots |-> FALSE, blacklist |-> <<>>, whitelist |-> <<>>,
     max_depth |-> <<>>, extends |-> <<>>]

\* #[validate(length(min = 1))] on name and on start_urls.
validate(c) == Len(c.name) >= 1 /\ Len(c.start_urls) >= 1

\* parent.selectors.insert(key, val) for every entry of the child.
InsertAll(pm, cm) ==
    [k \in (DOMAIN pm) \cup (DOMAIN cm) |->
        IF k \in DOMAIN cm THEN cm[k] ELSE pm[k]]

\* merge_configs with a child whose respect_robots always wins.
merge_configs_taking_flag(parent, child) ==
    [name |-> IF child.name # <<>> THEN child.name ELSE parent.name,
     start_urls |-> IF child.start_urls # <<>> THEN child.start_urls
                    ELSE parent.start_urls,
     concurrency |-> IF child.concurrency # 1 THEN child.concurrency
                     ELSE parent.concurrency,
     delay_ms |-> IF child.delay_ms # 0 THEN child.delay_ms
                  ELSE parent.delay_ms,
     respect_robots |-> child.respect_robots,
     blacklist |-> IF child.blacklist # <<>> THEN child.blacklist
                   ELSE parent.blacklist,
     whitelist |-> IF child.whitelist # <<>> THEN child.whitelist
                   ELSE parent.whitelist,
     max_depth |-> IF child.max_depth # <<>> THEN child.max_depth
                   ELSE parent.max_depth,
     selectors |-> InsertAll(parent.selectors, child.selectors),
     extends |-> <<>>]

merge_configs(parent, child) ==
    [name |-> IF child.name # <<>> THEN child.name ELSE parent.name,
     start_urls |-> IF child.start_urls # <<>> THEN child.start_urls
                    ELSE parent.start_urls,
     concurrency |-> IF child.concurrency # 1 THEN child.concurrency
                     ELSE parent.concurrency,
     delay_ms |-> IF child.delay_ms # 0 THEN child.delay_ms
                  ELSE parent.delay_ms,
     respect_robots |-> IF child.respect_robots THEN child.respect_robots
                        ELSE parent.respect_robots,
     blacklist |-> IF child.blacklist # <<>> THEN child.blacklist
                   ELSE parent.blacklist,
     whitelist |-> IF child.whitelist # <<>> THEN child.whitelist
                   ELSE parent.whitelist,
     max_depth |-> IF child.max_depth # <<>> THEN child.max_depth
                   ELSE parent.max_depth,
     selectors |-> InsertAll(parent.selectors, child.selectors),
     extends |-> <<>>]

\* The configurations merge_configs is given: the parent is what
\* load_with_inheritance returned (a file without `extends`, or a merge), the
\* child a file that names a parent.  Each field is at its default or at a
\* value of the parent's or of the child's own.
ParentConfigs ==
    [name : {<<>>, <<1>>}, start_urls : {<<>>, <<1>>},
     selectors : {EmptyMap, [k \in {"title", "body"} |-> 1]},
     concurrency : {default_concurrency, 2}, delay_ms : {default_delay, 10},
     respect_robots : BOOLEAN, blacklist : {<<>>, <<1>>},
     whitelist : {<<>>, <<1>>}, max_depth : {<<>>, <<1>>},
     extends : {<<>>}]
ChildConfigs ==
    [name : {<<>>, <<2>>}, start_urls : {<<>>, <<2>>},
     selectors : {EmptyMap, [k \in {"title"} |-> 2]},
     concurrency : {default_concurrency, 3}, delay_ms : {default_delay, 20},
     respect_robots : BOOLEAN, blacklist : {<<>>, <<2>>},
     whitelist : {<<>>, <<2>>}, max_depth : {<<>>, <<0>>},
     extends : {<<1>>}]
NoPair == [parent |-> DefaultConfig, child |-> DefaultConfig]
NoMerge == [done |-> FALSE, config |-> DefaultConfig]

\* One call of merge_configs.
merge ==
    /\ ~mout.done
    /\ mout' = [done |-> TRUE,
                config |-> merge_configs(mpair.parent, mpair.child)]
    /\ UNCHANGED <<storeVars, orchVars, proxyVars, urlVars, runVars,
                   crawlVars, cacheVars, refVars, collVars, extractVars,
                   dashVars, cfiles, loader, started, mpair>>

\* What a file holds: a name and a start URL of its own or neither, and the
\* path of a parent or none.  A file that cannot be read or parsed behaves as
\* a missing one: load_file's error leaves load_with_inheritance the same way
\* canonicalize's does.
FileContents ==
    [named : BOOLEAN, has_url : BOOLEAN,
     extends : {<<>>} \cup {<<p>> : p \in Paths}]
FileSystems == [Files -> FileContents]
NoFiles == [f \in Files |-> [named |-> FALSE, has_url |-> FALSE,
                             extends |-> <<>>]]

\* load_file: the document parsed, the fields it leaves out at their
\* defaults.  The name and the URL of file f are f.
load_file(fs, f) ==
    [DefaultConfig EXCEPT
        !.name = IF fs[f].named THEN <<f>> ELSE <<>>,
        !.start_urls = IF fs[f].has_url THEN <<f>> ELSE <<>>,
        !.extends = fs[f].extends]

\* The calls of load_with_inheritance that wait for their parent are the
\* stack, each with the configuration of its own file; `arg` is the path
\* load was given, `path` the argument of the innermost call, `val` the
\* final_config of a call that is about to return.
MaxChain == NumFiles + 1
NoResult == [kind |-> "none", error |-> "none", config |-> DefaultConfig]
OkConfig(c) == [kind |-> "Ok", error |-> "none", config |-> c]
ErrConfig(e) == [kind |-> "Err", error |-> e, config |-> DefaultConfig]
NoLoad ==
    [pc |-> "idle", arg |-> 0, path |-> 0, stack |-> <<>>, visited |-> {},
     val |-> DefaultConfig, ret |-> NoResult]

\* ConfigLoader::load: an empty visited set and the caller's path.
load(path) == [NoLoad EXCEPT !.pc = "call", !.arg = path, !.path = path]

\* load_with_inheritance without its test of the visited set.
lwi_call_unchecked ==
    /\ loader.pc = "call"
    /\ IF loader.path \notin Files
       THEN loader' = [loader EXCEPT !.pc = "done",
                                     !.ret = ErrConfig("canonicalize")]
       ELSE IF load_file(cfiles, loader.path).extends # <<>>
       THEN /\ Len(loader.stack) < MaxChain
            /\ loader' = [loader EXCEPT
                    !.visited = @ \cup {loader.path},
                    !.stack = Append(@, load_file(cfiles, loader.path)),
                    !.path = load_file(cfiles, loader.path).extends[1]]
       ELSE loader' = [loader EXCEPT
                    !.visited = @ \cup {loader.path},
                    !.pc = "return",
                    !.val = load_file(cfiles, loader.path)]
    /\ UNCHANGED <<storeVars, orchVars, proxyVars, urlVars, runVars,
                   crawlVars, cacheVars, refVars, collVars, extractVars,
                   dashVars, cfiles, started, mpair, mout>>

\* load_with_inheritance from its entry to the call for the parent, or to
\* the final_config of a file without parent.  An error leaves every waiting
\* call through its `?`.
lwi_call ==
    /\ loader.pc = "call"
    /\ IF loader.path \notin Files
       THEN loader' = [loader EXCEPT !.pc = "done",
                                     !.ret = ErrConfig("canonicalize")]
       ELSE IF loader.path \in loader.visited
       THEN loader' = [loader EXCEPT !.pc = "done",
                                     !.ret = ErrConfig("circular")]
       ELSE IF load_file(cfiles, loader.path).extends # <<>>
       THEN /\ Len(loader.stack) < MaxChain
            /\ loader' = [loader EXCEPT
                    !.visited = @ \cup {loader.path},
                    !.stack = Append(@, load_file(cfiles, loader.path)),
                    !.path = load_file(cfiles, loader.path).extends[1]]
       ELSE loader' = [loader EXCEPT
                    !.visited = @ \cup {loader.path},
                    !.pc = "return",
                    !.val = load_file(cfiles, loader.path)]
    /\ UNCHANGED <<storeVars, orchVars, proxyVars, urlVars, runVars,
                   crawlVars, cacheVars, refVars, collVars, extractVars,
                   dashVars, cfiles, started, mpair, mout>>

\* The end of a call that validates whatever is_parent_load says.
lwi_return_validating_parents ==
    /\ loader.pc = "return"
    /\ IF ~validate(loader.val)
       THEN loader' = [loader EXCEPT !.pc = "done",
                                     !.ret = ErrConfig("validation")]
       ELSE IF loader.stack = <<>>
       THEN loader' = [loader EXCEPT !.pc = "done",
                                     !.ret = OkConfig(loader.val)]
       ELSE loader' = [loader EXCEPT
                !.stack = SubSeq(@, 1, Len(@) - 1),
                !.val = merge_configs(@, loader.stack[Len(loader.stack)])]
    /\ UNCHANGED <<storeVars, orchVars, proxyVars, urlVars, runVars,
                   crawlVars, cacheVars, refVars, collVars, extractVars,
                   dashVars, cfiles, started, mpair, mout>>

\* The end of a call: is_parent_load is false in the call load made, the one
\* no other call waits for, and that call validates; any other returns to
\* the call that waits for it, which merges its own file over the result.
lwi_return ==
    /\ loader.pc = "return"
    /\ IF loader.stack = <<>>
       THEN loader' = [loader EXCEPT
                !.pc = "done",
                !.ret = IF validate(loader.val) THEN OkConfig(loader.val)
                        ELSE ErrConfig("validation")]
       ELSE loader' = [loader EXCEPT
                !.stack = SubSeq(@, 1, Len(@) - 1),
                !.val = merge_configs(@, loader.stack[Len(loader.stack)])]
    /\ UNCHANGED <<storeVars, orchVars, proxyVars, urlVars, runVars,
                   crawlVars, cacheVars, refVars, collVars, extractVars,
                   dashVars, cfiles, started, mpair, mout>>

\* ---- the dashboard's start_crawl and stop_crawl (ui/mod.rs) ----
\* MaxStarts crawls are started.  A crawl start_crawl spawned is a record of
\* `tasks`; its CancellationToken is named by its position there.
MaxStarts == 2
ParamUrl == NumFiles + 1
UrlParams == {<<>>, <<EmptyString>>, <<ParamUrl>>}
ConfigParams == {<<>>, <<EmptyString>>} \cup {<<p>> : p \in Paths}
AdhocName == <<0>>
StopIds == 0..(MaxStarts + 1)
NoStart == [pc |-> "idle", url |-> <<>>, answer |-> "none"]
NoStop == [id |-> 0, answer |-> "none"]

\* params.config.as_ref().filter(|s| !s.is_empty()), and the same of url.
filled(param) == param # <<>> /\ param[1] # EmptyString

\* The configuration of a request that names no file.
adhoc(url) ==
    [DefaultConfig EXCEPT !.name = AdhocName, !.start_urls = url]

\* The start URLs after the override by an explicit url.
final_start_urls(config, url) ==
    IF filled(url) THEN <<url[1]>> ELSE config.start_urls

\* tokens.insert, tokens.remove and tokens.get of the HashMap<i64, token>.
TokenInsert(toks, id, t) ==
    {e \in toks : e.id # id} \cup {[id |-> id, token |-> t]}
TokenRemove(toks, id) == {e \in toks : e.id # id}
HasToken(toks, id) == \E e \in toks : e.id = id
TokenGet(toks, id) == (CHOOSE e \in toks : e.id = id).token

\* sites.iter_mut().find(|s| s.id == crawl_id): the first site of the id.
FirstSite(ss, id) ==
    IF \E i \in 1..Len(ss) : ss[i].id = id
    THEN CHOOSE i \in 1..Len(ss) :
            ss[i].id = id /\ \A j \in 1..(i - 1) : ss[j].id # id
    ELSE 0
MarkFinished(ss, id) ==
    [i \in 1..Len(ss) |->
        IF i = FirstSite(ss, id) THEN [ss[i] EXCEPT !.finished = TRUE]
        ELSE ss[i]]

\* DashboardServer::run: every crawl of the table is a finished site.
InitialSites(rows) ==
    [i \in 1..Len(rows) |->
        [id |-> rows[i].id, url |-> rows[i].name, finished |-> TRUE]]

\* start_crawl from create_crawl on: the row, whose id is 0 when the insert
\* failed, the site, the token and the spawned task.  The log entries of a
\* site are left out.
spawn_crawl(start_urls, io) ==
    /\ Len(tasks) < MaxStarts
    /\ crawls' = IF io = "ok"
                 THEN Append(crawls, NewCrawlRow(crawls, start_urls[1], clock))
                 ELSE crawls
    /\ sites' = Append(sites,
            [id |-> IF io = "ok" THEN NextRowId(crawls) ELSE 0,
             url |-> start_urls[1], finished |-> FALSE])
    /\ tokens' = TokenInsert(tokens,
            IF io = "ok" THEN NextRowId(crawls) ELSE 0, Len(tasks) + 1)
    /\ tasks' = Append(tasks,
            [id |-> IF io = "ok" THEN NextRowId(crawls) ELSE 0,
             start_urls |-> start_urls, cancelled |-> FALSE,
             pc |-> "running"])
    /\ UNCHANGED <<clock, crawlRet, stopRet>>

\* start_crawl from the result of the configuration on.
start_crawl_with(result, url, io, pc) ==
    IF result.kind = "Err"
    THEN /\ started' = [pc |-> pc, url |-> url, answer |-> "Config Error"]
         /\ UNCHANGED <<crawlVars, dashVars>>
    ELSE IF final_start_urls(result.config, url) = <<>>
    THEN /\ started' = [pc |-> pc, url |-> url,
                        answer |-> "No start URL provided"]
         /\ UNCHANGED <<crawlVars, dashVars>>
    ELSE /\ started' = [pc |-> pc, url |-> url, answer |-> "Crawl started"]
         /\ spawn_crawl(final_start_urls(result.config, url), io)

\* A request to start_crawl, up to its call of ConfigLoader::load when it
\* names a file and to its answer when it names none.
start_crawl_begin(config, url, io) ==
    /\ started.pc = "idle"
    /\ loader.pc = "idle"
    /\ IF filled(config)
       THEN /\ loader' = load(config[1])
            /\ started' = [pc |-> "loading", url |-> url, answer |-> "none"]
            /\ UNCHANGED <<crawlVars, dashVars>>
       ELSE /\ start_crawl_with(OkConfig(adhoc(url)), url, io, "answered")
            /\ UNCHANGED loader
    /\ UNCHANGED <<storeVars, orchVars, proxyVars, urlVars, runVars,
                   cacheVars, refVars, collVars, extractVars,
                   cfiles, mpair, mout>>

\* The request from the return of ConfigLoader::load on.
start_crawl_loaded(io) ==
    /\ started.pc = "loading"
    /\ loader.pc = "done"
    /\ start_crawl_with(loader.ret, started.url, io, "answered")
    /\ UNCHANGED <<storeVars, orchVars, proxyVars, urlVars, runVars,
                   cacheVars, refVars, collVars, extractVars,
                   cfiles, loader, mpair, mout>>

\* What load gives the dashboard: an error, or a configuration that passed
\* its validation.
LoadResults ==
    {ErrConfig("validation"),
     OkConfig([DefaultConfig EXCEPT !.name = <<1>>, !.start_urls = <<1>>])}

\* start_crawl as one step, the call of load with its result.
start_crawl(config, loaded, url, io) ==
    /\ started.pc = "idle"
    /\ start_crawl_with(IF filled(config) THEN loaded
                        ELSE OkConfig(adhoc(url)), url, io, "idle")
    /\ UNCHANGED <<storeVars, orchVars, proxyVars, urlVars, runVars,
                   cacheVars, refVars, collVars, extractVars,
                   cfiles, loader, mpair, mout>>

\* stop_crawl: the token the map holds for the id is cancelled.
stop_crawl(id) ==
    /\ IF HasToken(tokens, id)
       THEN /\ tasks' = [tasks EXCEPT
                            ![TokenGet(tokens, id)].cancelled = TRUE]
            /\ stopRet' = [id |-> id, answer |-> "Crawl stopping..."]
       ELSE /\ tasks' = tasks
            /\ stopRet' = [id |-> id,
                           answer |-> "Crawl not found or already stopped"]
    /\ UNCHANGED <<storeVars, orchVars, proxyVars, urlVars, runVars,
                   crawlVars, cacheVars, refVars, collVars, extractVars,
                   sites, tokens, confVars>>

\* Crawler::run of a spawned crawl returns, completed, cancelled or failed,
\* and drops its sender.
crawl_return(r) ==
    /\ r \in 1..Len(tasks)
    /\ tasks[r].pc = "running"
    /\ tasks' = [tasks EXCEPT ![r].pc = "returned"]
    /\ UNCHANGED <<storeVars, orchVars, proxyVars, urlVars, runVars,
                   crawlVars, cacheVars, refVars, collVars, extractVars,
                   sites, tokens, stopRet, confVars>>

\* The spawned task once its receiver is closed: the first site of the
\* crawl's id is marked finished and the id's token removed.
listener_finish(r) ==
    /\ r \in 1..Len(tasks)
    /\ tasks[r].pc = "returned"
    /\ sites' = MarkFinished(sites, tasks[r].id)
    /\ tokens' = TokenRemove(tokens, tasks[r].id)
    /\ tasks' = [tasks EXCEPT ![r].pc = "finished"]
    /\ UNCHANGED <<storeVars, orchVars, proxyVars, urlVars, runVars,
                   crawlVars, cacheVars, refVars, collVars, extractVars,
                   stopRet, confVars>>

InitDashIdle ==
    /\ sites = <<>>
    /\ tokens = {}
    /\ tasks = <<>>
    /\ stopRet = NoStop
InitConfIdle ==
    /\ cfiles = NoFiles
    /\ loader = NoLoad
    /\ started = NoStart
    /\ mpair = NoPair
    /\ mout = NoMerge

InitLibIdle ==
    InitCrawlIdle /\ InitCacheIdle /\ InitRefIdle /\ InitCollIdle
        /\ InitExtractIdle /\ InitDashIdle /\ InitConfIdle

InitStore ==
    /\ results = <<>>
    /\ frontier = <<>>
    /\ storeRet = NoCall

InitOrch ==
    /\ opc = [w \in Orchs |-> "start"]
    /\ ocur = [w \in Orchs |-> 0]
    /\ ocache = [w \in Orchs |-> {}]

InitResults ==
    InitStore /\ InitOrch /\ InitProxyIdle /\ InitUrlIdle /\ InitRunIdle
    /\ InitLibIdle

NextResults ==
    \/ \E w \in Orchs : orch_seed(w)
    \/ \E w \in Orchs, u \in UrlIds : orch_recv(w, u)
    \/ \E w \in Orchs, io \in {"ok", "fail"} : orch_save(w, io)
    \/ \E w \in Orchs : orch_cache(w)
    \/ \E c \in CrawlIds, u \in UrlIds, d \in DataVals, io \in {"ok", "fail"} :
          client_save_result(c, u, d, io)

SpecResults == InitResults /\ [][NextResults]_vars

(***************************************************************************)
(* Claims about table `results`.                                           *)
(***************************************************************************)

\* C1: in every reachable state, whatever the interleaving of save_result
\* calls (two orchestrators that both missed the dedup cache included), the
\* table holds at most one row per (crawl_id, url).
C1_AtMostOneResultPerKey ==
    \A c \in CrawlIds, u \in UrlIds : Cardinality(RowsOf(results, c, u)) <= 1

\* Both orchestrators missed the cache on the same url and both have returned
\* from save_result for it.
C1_Witness_BothSavedSameUrl ==
    /\ opc[1] = "cache" /\ opc[2] = "cache"
    /\ ocur[1] = ocur[2]
    /\ ~is_cached(ocache[1], ocur[1]) /\ ~is_cached(ocache[2], ocur[2])
    /\ Cardinality(RowsOf(results, OrchCrawl, ocur[1])) = 1

\* C2: first write wins and rows are immutable: every step keeps every
\* existing row as it is (same id, key and data; none is deleted), and a
\* save_result that meets an existing (crawl_id, url) without an I/O failure
\* changes nothing and returns Ok.
C2_FirstWriteWins ==
    [][ /\ Len(results') >= Len(results)
        /\ \A i \in 1..Len(results) : results'[i] = results[i]
        /\ (storeRet'.op = "save_result" /\ storeRet'.dup /\ storeRet'.io = "ok")
              => (storeRet'.ret = "Ok" /\ results' = results) ]_vars

\* Orchestrator 2 has just saved, with its own data, a url that
\* orchestrator 1 had saved first: the call returned Ok and the row still
\* holds orchestrator 1's data.
C2_Witness_SecondSaveDifferentData ==
    /\ storeRet.op = "save_result" /\ storeRet.dup /\ storeRet.ret = "Ok"
    /\ opc[2] = "cache" /\ opc[1] = "recv"
    /\ is_cached(ocache[1], ocur[2])
    /\ ExtractedData(1) # ExtractedData(2)
    /\ \E i \in RowsOf(results, OrchCrawl, ocur[2]) :
          results[i].data = to_string(ExtractedData(1))

InitFrontier ==
    InitStore /\ InitOrch /\ InitProxyIdle /\ InitUrlIdle /\ InitRunIdle
    /\ InitLibIdle

NextFrontier ==
    \/ \E c \in CrawlIds, batch \in Batches :
          \E k \in 0..Len(batch) : client_add_to_frontier(c, batch, k)
    \/ \E c \in CrawlIds, limit \in Limits : client_get_pending_frontier(c, limit)

SpecFrontier == InitFrontier /\ [][NextFrontier]_vars

(***************************************************************************)
(* Claims about table `frontier`.                                          *)
(***************************************************************************)

\* C3: add_to_frontier is idempotent: a step of add_to_frontier keeps every
\* existing row as it is (same id, depth and status), leaves exactly one row
\* for every pair it inserted, whether the pair existed before or is repeated
\* in the batch, and returns Ok when no statement met an I/O failure.
C3_AddToFrontierIdempotent ==
    [][ storeRet'.op = "add_to_frontier" =>
          /\ Len(frontier') >= Len(frontier)
          /\ \A i \in 1..Len(frontier) : frontier'[i] = frontier[i]
          /\ \A j \in 1..storeRet'.done :
                Cardinality(RowsOf(frontier', storeRet'.crawl_id,
                                   storeRet'.batch[j][1])) = 1
          /\ (storeRet'.done = Len(storeRet'.batch) => storeRet'.ret = "Ok")
      ]_vars

\* A batch that names one url twice, with two depths, has returned Ok and the
\* row does not carry the depth of the second pair.
C3_Witness_DuplicateIgnored ==
    /\ storeRet.op = "add_to_frontier" /\ storeRet.ret = "Ok"
    /\ Len(storeRet.batch) = 2
    /\ storeRet.batch[1][1] = storeRet.batch[2][1]
    /\ storeRet.batch[1][2] # storeRet.batch[2][2]
    /\ \E i \in RowsOf(frontier, storeRet.crawl_id, storeRet.batch[2][1]) :
          frontier[i].depth # as_i32(storeRet.batch[2][2])

\* What a step of get_pending_frontier must satisfy, given the greatest
\* number of rows it may return.
ReadStepOk(maxRows) ==
    /\ frontier' = frontier
    /\ Len(storeRet'.rows) <= maxRows
    /\ \A k \in 1..Len(storeRet'.rows) :
          \E i \in 1..Len(frontier) :
             /\ frontier[i].id = storeRet'.rows[k][1]
             /\ frontier[i].url = storeRet'.rows[k][2]
             /\ frontier[i].crawl_id = storeRet'.crawl_id
             /\ frontier[i].status = "pending"
    /\ storeRet'.again => storeRet'.rows = storeRet.rows

\* C4 as stated: get_pending_frontier changes no row, a call repeated with
\* the same arguments and no write in between returns the same rows, it
\* returns rows of the given crawl only, and never more than `limit` rows
\* (no row at all for a limit below zero).
C4_Original_ReadNeverExceedsLimit ==
    [][ storeRet'.op = "get_pending_frontier" =>
          ReadStepOk(IF storeRet'.limit < 0 THEN 0 ELSE storeRet'.limit) ]_vars

\* C4 as amended: the same, the bound on the number of rows holding for
\* limit >= 0; with a negative limit every pending row of the crawl may be
\* returned.
C4_PureRead ==
    [][ storeRet'.op = "get_pending_frontier" =>
          ReadStepOk(IF storeRet'.limit < 0 THEN Len(frontier)
                     ELSE storeRet'.limit) ]_vars

\* The same read was made twice in a row; it returned one row, as many as the
\* limit, while the crawl has two pending rows and the other crawl has rows.
C4_Witness_RepeatedRead ==
    /\ storeRet.op = "get_pending_frontier" /\ storeRet.again
    /\ storeRet.limit = 1 /\ Len(storeRet.rows) = 1
    /\ Len(PendingRows(frontier, storeRet.crawl_id, -1)) = 2
    /\ \E i \in 1..Len(frontier) : frontier[i].crawl_id # storeRet.crawl_id

(***************************************************************************)
(* The proxy rotator on its own.                                           *)
(***************************************************************************)
\* Crawler::new is given n endpoints; the ProxyManager is the one the Crawler
\* holds or, for n = 0 where it holds none, ProxyManager::new(vec![]) made
\* directly.
InitProxy ==
    /\ InitStore /\ InitOrch /\ InitUrlIdle /\ InitLibIdle
    /\ \E n \in 0..MaxPool :
          /\ crawler = Crawler_new(n)
          /\ proxies = NewPool(n)
    /\ rargs = [resume |-> FALSE]
    /\ rpc = "idle"
    /\ rcur = NotRun
    /\ rcache = {}
    /\ chan = NoChan
    /\ fetcher = [state |-> "unspawned", sent |-> <<>>]
    /\ cancel = NoCancel
    /\ sink = [tx |-> "None", got |-> <<>>]
    /\ rlog = <<>>
    /\ rret = NoReturnYet
    /\ current = 0
    /\ tpc = [t \in Threads |-> "idle"]
    /\ tobs = [t \in Threads |-> 0]
    /\ tret = [t \in Threads |-> NoReturn]
    /\ calls = <<>>

NextProxy ==
    \/ \E t \in Threads : get_next_empty(t)
    \/ \E t \in Threads : get_next_fetch(t)
    \/ \E t \in Threads : get_next_return(t)

SpecProxy == InitProxy /\ [][NextProxy]_vars

(***************************************************************************)
(* Claims about the proxy rotator.                                         *)
(***************************************************************************)

\* C9 as stated: for a non-empty pool of length n the k-th call of get_next
\* (k = 0, 1, 2, ..., in the order the calls take effect, without bound)
\* returns pool[k mod n], so that any n consecutive calls return every
\* position of the pool once.
C9_KthCallReturnsKModN ==
    LET n == Len(proxies)
    IN  /\ \A k \in 1..Len(calls) : calls[k].idx = (k - 1) % n
        /\ \A j \in 1..Len(calls) :
              j + n - 1 <= Len(calls) =>
                 {calls[i].idx : i \in j..(j + n - 1)} = 0..(n - 1)

\* C10: calls of get_next made concurrently never observe the same cursor
\* value.  The cursor is a usize and its arithmetic is that of usize (addition
\* wraps at the word size): the calls observe consecutive cursor values in the
\* order they take effect, so any m of them in a row, m up to the word size,
\* observe m different values c, c+1, ..., c+m-1; the cursor stands at the
\* starting value plus the number of calls; and every call returns the
\* endpoint at the value it observed mod n.
C10_ConcurrentCallsDistinct ==
    /\ \A k \in 1..Len(calls) : calls[k].obs = (k - 1) % UsizeMod
    /\ current = Len(calls) % UsizeMod
    /\ \A j, k \in 1..Len(calls) :
          (j < k /\ k - j < UsizeMod) => calls[j].obs # calls[k].obs
    /\ \A t \in Threads :
          (tpc[t] = "idle" /\ tret[t] \notin {None, NoReturn})
             => tret[t] = proxies[(tobs[t] % Len(proxies)) + 1]

\* Two calls are in flight at once, each past its fetch_add, on a pool of
\* more than one endpoint.
C10_Witness_TwoCallsInFlight ==
    /\ Len(proxies) > 1
    /\ tpc[1] = "fetched" /\ tpc[2] = "fetched"
    /\ tobs[1] # tobs[2]
    /\ Len(calls) >= 2

\* C11: on an empty pool every call of get_next returns None and leaves the
\* cursor where it was (no fetch_add is made); a Crawler made from an empty
\* proxy list holds no ProxyManager.
C11_EmptyPoolReturnsNone ==
    /\ Len(proxies) = 0 =>
          /\ current = 0
          /\ calls = <<>>
          /\ \A t \in Threads : tret[t] \in {NoReturn, None} /\ tpc[t] = "idle"
    /\ crawler.given = 0 => crawler.proxy_manager = "None"
    /\ crawler.given > 0 => crawler.proxy_manager = "Some"

\* Both threads have called get_next on the empty pool and got None; the
\* Crawler was given no proxies.
C11_Witness_BothCalledEmptyPool ==
    /\ Len(proxies) = 0 /\ crawler.given = 0
    /\ \A t \in Threads : tret[t] = None

(***************************************************************************)
(* The canonicalizer on its own.                                           *)
(***************************************************************************)
InitUrl ==
    /\ InitStore /\ InitOrch /\ InitProxyIdle /\ InitRunIdle /\ InitLibIdle
    /\ upc = "raw"
    /\ partsA \in AllParts
    /\ partsB \in Variants(partsA)
    /\ normA = NotRun /\ normB = NotRun /\ normAA = NotRun

NextUrl ==
    \/ normalize_first
    \/ normalize_second
    \/ normalize_again

SpecUrl == InitUrl /\ [][NextUrl]_vars

\* partsB is partsA with scheme and host possibly in another letter case.
OnlyCaseDiffers ==
    /\ partsA.scheme # NoScheme
    /\ to_lowercase(partsB.scheme) = to_lowercase(partsA.scheme)
    /\ to_lowercase(partsB.host) = to_lowercase(partsA.host)
    /\ partsB = [partsA EXCEPT !.scheme = partsB.scheme, !.host = partsB.host]

\* The text "scheme://host" in lower case that a normalized url starts with.
LowerOrigin(p) ==
    to_lowercase(p.scheme) \o <<":", "/", "/">> \o to_lowercase(p.host)

\* C5: two absolute urls that differ only in the letter case of scheme or
\* host have the same normalize_url result, and that result starts with the
\* scheme and the host in lower case.
C5_CaseVariantsNormalizeEqual ==
    (upc = "again" /\ OnlyCaseDiffers) =>
        /\ normA = normB
        /\ Len(normA) >= Len(LowerOrigin(partsA))
        /\ SubSeq(normA, 1, Len(LowerOrigin(partsA))) = LowerOrigin(partsA)

\* C6: normalize_url is idempotent: applied to its own result for any raw
\* url it returns that result again.
C6_NormalizeIdempotent ==
    upc = "again" => normAA = normA

\* C7: two urls that differ only in the order of their query parameters,
\* repeated keys included, have the same normalize_url result.
C7_ParamOrderIrrelevant ==
    (/\ upc = "again"
     /\ partsA.scheme # NoScheme
     /\ partsB = [partsA EXCEPT !.params = Reverse(partsA.params)])
        => normA = normB

\* C8: a url with a non-root path and the same url with one more trailing
\* slash have the same normalize_url result; a url with an empty path and the
\* same url with path "/" both get path "/"; no normalized url holds the
\* fragment.
C8_TrailingSlashAndFragment ==
    upc = "again" =>
        /\ (/\ partsA.scheme # NoScheme
            /\ partsA.stem # <<>>
            /\ partsB = [partsA EXCEPT !.slashes = partsA.slashes + 1])
              => normA = normB
        /\ (/\ partsA.scheme # NoScheme
            /\ partsA.stem = <<>> /\ partsA.slashes = 0
            /\ partsB = [partsA EXCEPT !.slashes = 1])
              => /\ normA = normB
                 /\ Len(normA) > Len(LowerOrigin(partsA))
                 /\ normA[Len(LowerOrigin(partsA)) + 1] = "/"
        /\ partsA.scheme # NoScheme => Find(normA, <<"#">>) = NotFound

(***************************************************************************)
(* One run of Crawler::run.                                                *)
(***************************************************************************)
InitRun ==
    /\ InitOrch /\ InitProxyIdle /\ InitUrlIdle /\ InitLibIdle
    /\ results \in {<<>>, RecordedRows}
    /\ frontier \in {<<>>, RecordedFrontier}
    /\ storeRet = NoCall
    /\ crawler = Crawler_new(0)
    /\ rargs \in [resume : BOOLEAN]
    /\ rpc = "start"
    /\ rcur = NotRun
    /\ rcache = {}
    /\ chan = NoChan
    /\ fetcher = [state |-> "unspawned", sent |-> <<>>]
    /\ cancel = NoCancel
    /\ sink \in [tx : {"None", "Live"}, got : {<<>>}]
    /\ rlog = <<>>
    /\ rret = NoReturnYet

NextRun ==
    \/ \E io \in {"ok", "fail"} : run_seed_cache(io)
    \/ \E io \in {"ok", "fail"} : run_resume(io)
    \/ \E k \in 0..1 : run_seed_frontier(k)
    \/ run_cancelled
    \/ run_recv_ok
    \/ run_recv_err
    \/ \E io \in {"ok", "fail"} : run_save(io)
    \/ run_emit
    \/ cancel_fire
    \/ drop_receiver
    \/ \E e \in Events : fetch_send(e)
    \/ fetch_close

SpecRun == InitRun /\ [][NextRun]_vars

\* The steps of the task that executes run.
RunStep ==
    \/ \E io \in {"ok", "fail"} : run_seed_cache(io)
    \/ \E io \in {"ok", "fail"} : run_resume(io)
    \/ \E k \in 0..1 : run_seed_frontier(k)
    \/ run_cancelled
    \/ run_recv_ok
    \/ run_recv_err
    \/ \E io \in {"ok", "fail"} : run_save(io)
    \/ run_emit

\* The run under fair scheduling: the runtime polls the task of run as long
\* as it can take a step and every call on the store returns (weak fairness
\* of its steps), and select!, which polls its branches in random order,
\* does not pass over a cancelled token for ever (strong fairness of the
\* cancel branch).  Nothing is assumed of the fetcher or of the owners of
\* the token and of the status receiver.
SpecRunFair ==
    InitRun /\ [][NextRun]_vars /\ WF_vars(RunStep) /\ SF_vars(run_cancelled)

(***************************************************************************)
(* Claims about Crawler::run.                                              *)
(***************************************************************************)

\* The store held the recorded result before the run began (the run itself
\* writes other data).
HeldBefore == Len(results) > 0 /\ results[1] = RecordedRows[1]

\* The keys in a sequence of keys.
Range(q) == {q[i] : i \in 1..Len(q)}

\* C12: in a run on a crawl whose store already holds a result for the
\* canonical url k, k is never sent on the status sink, whatever the outcome
\* of the startup read of the persisted result urls.
C12_NoReemitOfRecorded ==
    HeldBefore => RecordedKey \notin Range(sink.got)

\* C13: once the cancel signal has fired the loop takes no further event
\* from the subscription, events already waiting included: the number of
\* events handed to the loop stays what it was when the signal fired.
C13_CancelStopsConsumption ==
    cancel.fired => Len(rlog) = cancel.taken

\* C14: when the cancel signal fires while an event is between the dedup
\* check and the status emission, and that event meets no store error, the
\* event is persisted, cached and emitted, and the run ends with Ok (as
\* cancelled), not with an error.
C14_InFlightEventFinishes ==
    (/\ rpc = "done"
     /\ cancel.fired /\ cancel.pc \in {"save", "emit"}
     /\ ~(rret.by = "save_result" /\ Len(rlog) = cancel.taken))
        => /\ rret.kind = "Ok"
           /\ KeyOf(rlog[cancel.taken]) \in get_visited_urls(results, OrchCrawl)
           /\ is_cached(rcache, KeyOf(rlog[cancel.taken]))
           /\ sink.tx = "Live" => KeyOf(rlog[cancel.taken]) \in Range(sink.got)

\* The canonical urls of the events the fetcher sent, in the order sent.
SentKeys == [i \in 1..Len(fetcher.sent) |-> KeyOf(fetcher.sent[i])]

\* The urls of the results the run added to what the store held before.
NewResultUrls ==
    LET from == IF HeldBefore THEN 2 ELSE 1
    IN  [i \in 1..(Len(results) - from + 1) |-> results[i + from - 1].url]

\* C15: when the fetcher has sent events with pairwise distinct canonical
\* urls, none recorded before, and closed its stream, and there was no
\* cancellation and no store error, the run ends with Ok having added
\* exactly those results in the order sent, the dedup cache holds their keys,
\* a live status sink got the urls in that order, and every url emitted is
\* persisted.
C15_EndToEndOrder ==
    (/\ rpc = "done"
     /\ fetcher.state = "closed"
     /\ ~cancel.fired
     /\ rret.kind # "Err"
     /\ Cardinality(Range(SentKeys)) = Len(SentKeys)
     /\ ~(HeldBefore /\ RecordedKey \in Range(SentKeys)))
        => /\ rret.kind = "Ok"
           /\ NewResultUrls = SentKeys
           /\ Range(SentKeys) \subseteq rcache
           /\ (sink.tx = "Live" => sink.got = SentKeys)
           /\ Range(sink.got) \subseteq get_visited_urls(results, OrchCrawl)

\* C16: the loop ends through an error of recv only when the fetcher's stream
\* has closed, and then every event the fetcher sent has a result in the store
\* (it was persisted, or skipped as a duplicate of a recorded url).
C16_CompletedOnlyOnClose ==
    (rpc = "done" /\ rret.kind = "Ok" /\ rret.by # "cancelled")
        => /\ rret.by = "Closed"
           /\ chan.closed
           /\ Range(SentKeys) \subseteq get_visited_urls(results, OrchCrawl)

\* The events whose url Url::parse or from_str rejects.
Unparsable == {e \in Events : from_str(RunUrls[e]).kind # "Ok"}

\* C17: an event whose url cannot be parsed as an absolute url is skipped:
\* no save_result is called for it, nothing is inserted into the dedup cache
\* and nothing is emitted.
C17_UnparsableSkipped ==
    \A e \in Unparsable :
        /\ KeyOf(e) \notin get_visited_urls(results, OrchCrawl)
        /\ KeyOf(e) \notin rcache
        /\ KeyOf(e) \notin Range(sink.got)

\* C18: a store error from save_result ends the run at once with that error:
\* the step changes no row of the store, the failing url is neither in the
\* dedup cache nor emitted, no event is taken afterwards, and once run has
\* returned nothing it wrote changes any more.
C18_StoreErrorIsFatal ==
    [][ /\ (rpc = "save" /\ rret'.kind = "Err") =>
              /\ rpc' = "done"
              /\ rret'.by = "save_result"
              /\ results' = results
              /\ rcache' = rcache /\ ~is_cached(rcache', rcur)
              /\ sink' = sink /\ rcur \notin Range(sink'.got)
              /\ rlog' = rlog
        /\ rpc = "done" =>
              /\ rpc' = "done" /\ rret' = rret
              /\ results' = results /\ rcache' = rcache
              /\ sink' = sink /\ rlog' = rlog ]_vars

\* run has returned the error of save_result for its second url, after it
\* persisted and emitted the first; events were still waiting.
C18_Witness_FailedAfterOneResult ==
    /\ rpc = "done" /\ rret = [kind |-> "Err", by |-> "save_result"]
    /\ Len(results) = 1 /\ results[1].url # rcur
    /\ sink.got = <<results[1].url>>
    /\ rcache = {results[1].url}
    /\ chan.buf # <<>>

\* C19 as stated: run returns an error only because of an error of
\* save_result; no other step (seeding the frontier, reading the persisted
\* result urls, reading the pending frontier, emitting status) makes it
\* return an error.
C19_Original_OnlySaveResultFails ==
    rret.kind = "Err" => rret.by = "save_result"

\* C19 as amended: run returns an error only because of an error of
\* save_result or of the add_to_frontier that seeds a run started without
\* resume; a failed read of the persisted result urls or of the pending
\* frontier and the status emission never make it return an error.
C19_OnlyStoreWritesFail ==
    /\ rret.kind = "Err" =>
          \/ rret.by = "save_result"
          \/ rret.by = "add_to_frontier" /\ ~rargs.resume
    /\ rret.kind = "Err" => rpc = "done"

\* A run started without resume on a crawl with a recorded result: the read
\* of the persisted result urls failed (the cache stayed empty) and the run
\* went on; seeding the frontier then failed and run returned that error.
C19_Witness_SeedFailedAfterReadFailed ==
    /\ rpc = "done" /\ rret = [kind |-> "Err", by |-> "add_to_frontier"]
    /\ HeldBefore /\ rcache = {}
    /\ storeRet.op = "add_to_frontier" /\ storeRet.ret = "Err"

\* C20: the status emission is fire-and-forget: the step that emits is
\* always possible, ends the iteration whatever the state of the receiver,
\* returns no error, caches the url and leaves the store alone; with the
\* receiver dropped or no sink at all nothing is delivered; and no other step
\* of the run looks at the sink.
C20_EmitFireAndForget ==
    [][ /\ rpc = "emit" => ENABLED run_emit
        /\ (rpc = "emit" /\ rpc' # "emit") =>
              /\ rpc' = "select"
              /\ rret' = rret
              /\ rcache' = cache(rcache, rcur)
              /\ results' = results
              /\ sink'.tx = sink.tx
              /\ sink'.got = IF sink.tx = "Live" THEN Append(sink.got, rcur)
                             ELSE sink.got
        /\ (rpc # "emit" /\ rpc' # rpc) => sink' = sink
        /\ rret'.by # "status_tx" ]_vars

\* The receiver got one url and was dropped; the run has since persisted,
\* cached and gone past the emission of a second url.
C20_Witness_PersistedAfterDrop ==
    /\ sink.tx = "Dropped" /\ Len(sink.got) = 1
    /\ rpc = "select"
    /\ Len(results) = 2 /\ Cardinality(rcache) = 2
    /\ ~HeldBefore

(***************************************************************************)
(* Table `crawls` under create_crawl and get_active_crawl.                 *)
(***************************************************************************)
InitCrawls ==
    /\ InitStore /\ InitOrch /\ InitProxyIdle /\ InitUrlIdle /\ InitRunIdle
    /\ InitDashIdle /\ InitConfIdle
    /\ InitCacheIdle /\ InitRefIdle /\ InitCollIdle /\ InitExtractIdle
    /\ crawls \in {<<>>, <<FinishedCrawl>>}
    /\ clock = 0
    /\ crawlRet = NoCall

NextCrawls ==
    \/ \E name \in CrawlNames, io \in {"ok", "fail"} : create_crawl(name, io)
    \/ \E io \in {"ok", "fail"} : get_active_crawl(io)
    \/ clock_tick

SpecCrawls == InitCrawls /\ [][NextCrawls]_vars

\* C22: get_active_crawl returns the id of an active crawl none of the
\* active crawls has a greater updated_at than, and none when no crawl is
\* active; create_crawl appends a row with status active and returns its
\* id, which no other row has, the first id of an empty table being 1.
C22_ActiveCrawlAndFreshIds ==
    /\ (crawlRet.op = "get_active_crawl" /\ crawlRet.kind = "Ok") =>
          IF \A i \in 1..Len(crawls) : crawls[i].status # "active"
          THEN crawlRet.id = <<>>
          ELSE \E i \in 1..Len(crawls) :
                  /\ crawlRet.id = <<crawls[i].id>>
                  /\ crawls[i].status = "active"
                  /\ \A j \in 1..Len(crawls) :
                        crawls[j].status = "active" =>
                            crawls[j].updated_at <= crawls[i].updated_at
    /\ (crawlRet.op = "create_crawl" /\ crawlRet.kind = "Ok") =>
          /\ Len(crawls) > 0
          /\ crawlRet.id = <<crawls[Len(crawls)].id>>
          /\ crawls[Len(crawls)].status = "active"
          /\ \A j \in 1..(Len(crawls) - 1) :
                crawls[j].id # crawls[Len(crawls)].id
          /\ Len(crawls) = 1 => crawlRet.id = <<1>>

\* C22 witness: with three crawls in the table, two of them active and
\* created in different seconds, get_active_crawl has returned an id.
C22_Witness_NewestOfTwoActive ==
    /\ crawlRet.op = "get_active_crawl"
    /\ crawlRet.kind = "Ok"
    /\ Len(crawls) = 3
    /\ crawls[1].status = "completed"
    /\ crawls[2].updated_at < crawls[3].updated_at
    /\ crawlRet.id = <<crawls[3].id>>

(***************************************************************************)
(* A CacheManager under extend, cache and is_cached.                       *)
(***************************************************************************)
InitCache ==
    /\ InitStore /\ InitOrch /\ InitProxyIdle /\ InitUrlIdle /\ InitRunIdle
    /\ InitDashIdle /\ InitConfIdle
    /\ InitCrawlIdle /\ InitRefIdle /\ InitCollIdle /\ InitExtractIdle
    /\ ccache = {}
    /\ cop = NoCall

NextCache ==
    \/ \E list \in KeyLists : cache_extend(list)
    \/ \E k \in CacheKeys : cache_cache(k)
    \/ \E k \in CacheKeys : cache_is_cached(k)

SpecCache == InitCache /\ [][NextCache]_vars

\* C23: after extend on an empty cache is_cached is true exactly for the
\* keys of the list and the size is the number of distinct keys; cache(k)
\* makes is_cached(k) true, changes the answer for no other key and keeps
\* the size when k was there; is_cached answers membership; no call removes
\* a key.
C23_CacheIsASet ==
    /\ (cop.op = "extend" /\ cop.before = {}) =>
          /\ \A k \in CacheKeys :
                is_cached(ccache, k) <=>
                    \E i \in 1..Len(cop.arg) : cop.arg[i] = k
          /\ Cardinality(ccache)
                = Cardinality({cop.arg[i] : i \in 1..Len(cop.arg)})
    /\ cop.op = "cache" =>
          /\ is_cached(ccache, cop.arg[1])
          /\ \A k \in CacheKeys \ {cop.arg[1]} :
                is_cached(ccache, k) <=> is_cached(cop.before, k)
          /\ is_cached(cop.before, cop.arg[1]) =>
                Cardinality(ccache) = Cardinality(cop.before)
    /\ cop.op = "is_cached" => (cop.ret <=> cop.arg[1] \in cop.before)
    /\ cop.op # "none" => cop.before \subseteq ccache

\* C23 witness: cache(k) was called on a cache that held k and another key.
C23_Witness_ReinsertedKey ==
    /\ cop.op = "cache"
    /\ cop.arg[1] \in cop.before
    /\ Cardinality(cop.before) = 2

(***************************************************************************)
(* UrlRef::from_str on absolute urls.                                      *)
(***************************************************************************)
InitRef ==
    /\ InitStore /\ InitOrch /\ InitProxyIdle /\ InitUrlIdle /\ InitRunIdle
    /\ InitDashIdle /\ InitConfIdle
    /\ InitCrawlIdle /\ InitCacheIdle /\ InitCollIdle /\ InitExtractIdle
    /\ furl \in RefParts
    /\ fref = NoRef

NextRef == ref_from_str \/ ref_next

SpecRef == InitRef /\ [][NextRef]_vars

\* C24: from_str on an absolute url returns the url's path (the text from
\* the end of the authority up to the first '?' or '#'), its query from '?'
\* on, its fragment from '#' on, and as depth the number of non-empty
\* segments of that path, also with userinfo or a port in the authority and
\* with the host text occurring earlier in the string.
C24_ComponentsOfAbsoluteUrl ==
    fref # NoRef =>
        /\ fref.kind = "Ok"
        /\ fref.path = furl.path
        /\ fref.query = furl.query
        /\ fref.fragment = furl.fragment
        /\ fref.depth = Depth(furl.path)

(***************************************************************************)
(* A UrlCollection under add.                                              *)
(***************************************************************************)
InitColl ==
    /\ InitStore /\ InitOrch /\ InitProxyIdle /\ InitUrlIdle /\ InitRunIdle
    /\ InitDashIdle /\ InitConfIdle
    /\ InitCrawlIdle /\ InitCacheIdle /\ InitRefIdle /\ InitExtractIdle
    /\ coll = EmptyColl
    /\ cadded = <<>>

NextColl == \E e \in CollInputs : coll_add(e)

SpecColl == InitColl /\ [][NextColl]_vars

\* The UrlRefs add was called with, and their normalized keys.
AddedRefs == {from_str(CollUrls[cadded[i]]) : i \in 1..Len(cadded)}
AddedKeys == {normalize(r) : r \in AddedRefs}

\* The number of urls stored at the nodes of all trees.
StoredAtNodes ==
    Cardinality(UNION {{<<n.host, n.path, i>> : i \in 1..Len(n.urls)} :
                          n \in coll.nodes})

\* The direct children of the root of host.
DirectChildren(host) ==
    {n \in coll.nodes : n.host = host /\ Len(n.path) = 1}

\* The segments of a path component.
SegmentsOf(path) == SelectSeq(Split(path, "/"), LAMBDA seg : seg # <<>>)

\* The first path segments of the urls added for host.
FirstSegments(host) ==
    {SegmentsOf(CollParts[e].path)[1] :
        e \in {cadded[i] : i \in {j \in 1..Len(cadded) :
                  /\ CollParts[cadded[j]].host = host
                  /\ SegmentsOf(CollParts[cadded[j]].path) # <<>>}}}

C25_Counts ==
    /\ unique_count(coll) = Cardinality(AddedKeys)
    /\ Cardinality(Hierarchies(coll))
          = Cardinality({r.hostname : r \in AddedRefs})
    /\ StoredAtNodes = unique_count(coll)
    /\ \A root \in Hierarchies(coll) :
          /\ {n.path[1] : n \in DirectChildren(root.host)}
                = FirstSegments(root.host)
          /\ Cardinality(DirectChildren(root.host))
                = Cardinality(FirstSegments(root.host))

C25_PresentKeyChangesNothing ==
    (/\ cadded' # cadded
     /\ contains_key(coll,
                     normalize(from_str(CollUrls[cadded'[Len(cadded')]]))))
        => coll' = coll

\* C25: after any sequence of add calls unique_count is the number of
\* distinct normalized keys added, there are as many hierarchies as
\* distinct hosts among them, the urls stored at tree nodes number
\* unique_count, and each root has one direct child for each distinct first
\* path segment; an add of a url whose key is present changes neither the
\* map nor a tree.
C25_OneEntryPerKey ==
    []C25_Counts /\ [][C25_PresentKeyChangesNothing]_vars

\* Some url added for the host of node n passes through n on its way to a
\* deeper node.
IsIntermediate(n) ==
    \E r \in AddedRefs :
        /\ r.hostname = n.host
        /\ Len(path_segments(r)) > Len(n.path)
        /\ SubSeq(path_segments(r), 1, Len(n.path)) = n.path

\* C30: in a tree built by any sequence of inserts a node that is an
\* intermediate segment of some inserted url is a Folder and a node that is
\* only ever a last segment is a File, whatever the order of the inserts.
C30_NodeTypesIndependentOfOrder ==
    \A n \in coll.nodes :
        n.path # <<>> =>
            n.node_type = (IF IsIntermediate(n) THEN "Folder" ELSE "File")

(***************************************************************************)
(* The handler of one event that is not cached: extraction and save.       *)
(***************************************************************************)
InitExtract ==
    /\ InitStore /\ InitOrch /\ InitProxyIdle /\ InitUrlIdle /\ InitRunIdle
    /\ InitDashIdle /\ InitConfIdle
    /\ InitCrawlIdle /\ InitCacheIdle /\ InitRefIdle /\ InitCollIdle
    /\ xrec \in [pc : {"event"}, page : Pages, selectors : SelectorMaps,
                 queried : {{}}, data : {{}}]

NextExtract ==
    \/ extract_fields
    \/ \E io \in {"ok", "fail"} : extract_save(io)

SpecExtract == InitExtract /\ [][NextExtract]_vars

\* The selector the extractor is to be asked for: the configured one when
\* it begins with an engine prefix, with "css:" in front otherwise.
Prefixed(selector) ==
    IF \E prefix \in {Css, Xpath, Regex} :
          /\ Len(prefix) <= Len(selector)
          /\ \A i \in 1..Len(prefix) : selector[i] = prefix[i]
    THEN selector
    ELSE <<"c", "s", "s", ":">> \o selector

\* C29: for each configured (name, selector) the extractor is queried with
\* the selector as it is when it starts with css:, xpath: or regex: and
\* with css: in front otherwise; the field map holds a name exactly when
\* the extractor returned a non-empty value for it; the map, empty or not,
\* is what save_result is given and what the row holds.
C29_FieldExtraction ==
    xrec.pc \in {"save", "saved", "failed"} =>
        /\ \A e \in xrec.selectors :
              \E q \in xrec.queried :
                  q.name = e.name /\ q.selector = Prefixed(e.selector)
        /\ Cardinality(xrec.queried) = Cardinality(xrec.selectors)
        /\ \A name \in FieldNames :
              (\E d \in xrec.data : d.name = name)
                 <=> \E e \in xrec.selectors :
                        /\ e.name = name
                        /\ select(xrec.page, Prefixed(e.selector)) # <<>>
        /\ \A d \in xrec.data :
              \E e \in xrec.selectors :
                  /\ e.name = d.name
                  /\ d.value = select(xrec.page, Prefixed(e.selector))
        /\ xrec.pc = "saved" =>
              /\ Len(results) = 1
              /\ results[1].url = PageUrl
              /\ results[1].data = to_string(xrec.data)

\* C29 witness: a page on which none of two configured selectors selects
\* anything, one of them without a prefix, was persisted with an empty map.
C29_Witness_EmptyMapPersisted ==
    /\ xrec.pc = "saved"
    /\ Cardinality(xrec.selectors) = 2
    /\ \E e \in xrec.selectors : e.selector = <<"x">>
    /\ xrec.data = {}
    /\ results[1].data = to_string({})

\* The start url is in the frontier of the crawl at depth 0, pending.
StartUrlPending ==
    \E i \in 1..Len(frontier) :
        /\ frontier[i].crawl_id = OrchCrawl
        /\ frontier[i].url = StartUrl
        /\ frontier[i].depth = 0
        /\ frontier[i].status = "pending"

C21_SeededBeforeEvents ==
    /\ (~rargs.resume /\ fetcher.state # "unspawned") => StartUrlPending
    /\ (Len(rlog) > 0 /\ HeldBefore) => RecordedKey \in rcache

\* C21: a fresh run has the start url in the frontier at depth 0, pending,
\* before the fetcher is started; a resumed run leaves the frontier rows as
\* they were; either way the dedup cache holds the persisted result urls of
\* the crawl before the first event is processed.
C21_Seeding ==
    []C21_SeededBeforeEvents /\ [][rargs.resume => frontier' = frontier]_vars

C26_SkipChangesNothing ==
    (/\ rlog' # rlog
     /\ is_cached(rcache, KeyOf(rlog'[Len(rlog')])))
        => /\ rpc' = "select"
           /\ rcur' = rcur
           /\ results' = results
           /\ frontier' = frontier
           /\ storeRet' = storeRet
           /\ rcache' = rcache
           /\ sink' = sink
           /\ rret' = rret

C26_EmittedOnce ==
    \A i \in 1..Len(sink.got), j \in 1..Len(sink.got) :
        i # j => sink.got[i] # sink.got[j]

\* C26: the handler of an event whose canonical url is in the dedup cache
\* saves nothing, leaves the cache and the status sink as they are and
\* waits for the next event; within a run no canonical url is sent on the
\* status sink twice.
C26_DedupSkip == []C26_EmittedOnce /\ [][C26_SkipChangesNothing]_vars

\* C26 witness: /x was persisted and emitted, then the event of /x/, which
\* has the same canonical url, was received and skipped.
C26_Witness_SecondEventSkipped ==
    /\ Len(rlog) = 2
    /\ rlog[1] = 1
    /\ rlog[2] = 2
    /\ KeyOf(1) = KeyOf(2)
    /\ rpc = "select"
    /\ sink.got = <<KeyOf(1)>>

C27_CacheWithinStore ==
    /\ rcache \subseteq get_visited_urls(results, OrchCrawl)
    /\ \A i \in 1..Len(sink.got) :
          /\ sink.got[i] \in rcache
          /\ sink.got[i] \in get_visited_urls(results, OrchCrawl)

C27_KeysEnterFromStore ==
    rcache' # rcache =>
        \/ /\ rpc = "start"
           /\ rcache' = rcache \cup get_visited_urls(results, OrchCrawl)
        \/ /\ rpc = "emit"
           /\ rcache' = rcache \cup {rcur}
           /\ storeRet.op = "save_result"
           /\ storeRet.ret = "Ok"
           /\ rcur \in get_visited_urls(results, OrchCrawl)

\* C27: in every state of a run each key of the dedup cache has a result
\* row of the crawl; a key enters the cache from the result urls read at
\* startup or after save_result has returned Ok for it; each url sent on
\* the status sink is in the store and in the cache.
C27_CachedMeansPersisted ==
    []C27_CacheWithinStore /\ [][C27_KeysEnterFromStore]_vars

\* C27 witness: the cache holds the url recorded by an earlier run and a
\* url this run has saved and emitted.
C27_Witness_SeededAndSavedKeys ==
    /\ HeldBefore
    /\ RecordedKey \in rcache
    /\ Len(sink.got) = 1
    /\ sink.got[1] # RecordedKey
    /\ Cardinality(rcache) = 2

WordDepths == 0..(UsizeMod - 1)

InitDepth ==
    InitStore /\ InitOrch /\ InitProxyIdle /\ InitUrlIdle /\ InitRunIdle
    /\ InitLibIdle

NextDepth ==
    \/ \E u \in UrlIds, d \in WordDepths, k \in 0..1 :
          client_add_to_frontier(OrchCrawl, << <<u, d>> >>, k)
    \/ \E limit \in Limits : client_get_pending_frontier(OrchCrawl, limit)

SpecDepth == InitDepth /\ [][NextDepth]_vars

\* The depths get_pending_frontier returns for the url of a crawl when it
\* reads every pending row of rows.
ReadDepths(rows, c, u) ==
    {PendingRows(rows, c, -1)[k][3] :
        k \in {j \in 1..Len(PendingRows(rows, c, -1)) :
                  PendingRows(rows, c, -1)[j][2] = u}}

\* C35: a depth d passed to add_to_frontier for a new (crawl_id, url) is
\* stored as d, a number that is not negative, and get_pending_frontier
\* returns d for the row, for every value d of a machine word.
C35_DepthRoundTrips ==
    [][ (/\ storeRet'.op = "add_to_frontier"
         /\ storeRet'.done = 1
         /\ ~HasRow(frontier, storeRet'.crawl_id, storeRet'.batch[1][1]))
        => /\ \A i \in RowsOf(frontier', storeRet'.crawl_id,
                              storeRet'.batch[1][1]) :
                 /\ frontier'[i].depth = storeRet'.batch[1][2]
                 /\ frontier'[i].depth >= 0
           /\ ReadDepths(frontier', storeRet'.crawl_id, storeRet'.batch[1][1])
                 = {storeRet'.batch[1][2]}
      ]_vars

\* ---- merge_configs on every pair of a parent and a child ----
InitMerge ==
    /\ InitStore /\ InitOrch /\ InitProxyIdle /\ InitUrlIdle /\ InitRunIdle
    /\ InitCrawlIdle /\ InitCacheIdle /\ InitRefIdle /\ InitCollIdle
    /\ InitExtractIdle /\ InitDashIdle
    /\ cfiles = NoFiles
    /\ loader = NoLoad
    /\ started = NoStart
    /\ mpair \in [parent : ParentConfigs, child : ChildConfigs]
    /\ mout = NoMerge
NextMerge == merge
SpecMerge == InitMerge /\ [][NextMerge]_vars

\* C34: merge_configs(parent, child) takes each scalar or list field from
\* the child when the child's value differs from the field's default (empty
\* name, empty list, concurrency 1, delay 0, respect_robots false, max_depth
\* none) and from the parent otherwise; the selectors are the parent's map
\* overridden key by key by the child's; `extends` of the result is none.
\* So a child at the default never replaces a parent's non-default value.
C34_MergeByField ==
    mout.done =>
        /\ mout.config.name =
              IF mpair.child.name # DefaultConfig.name
              THEN mpair.child.name ELSE mpair.parent.name
        /\ mout.config.start_urls =
              IF mpair.child.start_urls # DefaultConfig.start_urls
              THEN mpair.child.start_urls ELSE mpair.parent.start_urls
        /\ mout.config.concurrency =
              IF mpair.child.concurrency # DefaultConfig.concurrency
              THEN mpair.child.concurrency ELSE mpair.parent.concurrency
        /\ mout.config.delay_ms =
              IF mpair.child.delay_ms # DefaultConfig.delay_ms
              THEN mpair.child.delay_ms ELSE mpair.parent.delay_ms
        /\ mout.config.respect_robots =
              IF mpair.child.respect_robots # DefaultConfig.respect_robots
              THEN mpair.child.respect_robots
              ELSE mpair.parent.respect_robots
        /\ mout.config.blacklist =
              IF mpair.child.blacklist # DefaultConfig.blacklist
              THEN mpair.child.blacklist ELSE mpair.parent.blacklist
        /\ mout.config.whitelist =
              IF mpair.child.whitelist # DefaultConfig.whitelist
              THEN mpair.child.whitelist ELSE mpair.parent.whitelist
        /\ mout.config.max_depth =
              IF mpair.child.max_depth # DefaultConfig.max_depth
              THEN mpair.child.max_depth ELSE mpair.parent.max_depth
        /\ DOMAIN mout.config.selectors =
              (DOMAIN mpair.parent.selectors)
                  \cup (DOMAIN mpair.child.selectors)
        /\ \A k \in DOMAIN mout.config.selectors :
              mout.config.selectors[k] =
                 IF k \in DOMAIN mpair.child.selectors
                 THEN mpair.child.selectors[k]
                 ELSE mpair.parent.selectors[k]
        /\ mout.config.extends = <<>>
        /\ \A f \in {"name", "start_urls", "concurrency", "delay_ms",
                     "respect_robots", "blacklist", "whitelist",
                     "max_depth"} :
              (mpair.child[f] = DefaultConfig[f]
                  /\ mpair.parent[f] # DefaultConfig[f])
                 => mout.config[f] # DefaultConfig[f]

\* C34 witness: a merge in which the child leaves respect_robots and the
\* name at their defaults over a parent that set them, sets a concurrency
\* of its own and overrides one of the parent's two selectors.
C34_Witness_DefaultsDoNotOverride ==
    /\ mout.done
    /\ mpair.parent.respect_robots /\ ~mpair.child.respect_robots
    /\ mout.config.respect_robots
    /\ mpair.parent.name # <<>> /\ mpair.child.name = <<>>
    /\ mpair.parent.concurrency = 2 /\ mout.config.concurrency = 3
    /\ mpair.parent.selectors # EmptyMap /\ mpair.child.selectors # EmptyMap
    /\ mout.config.selectors["title"] = 2
    /\ mout.config.selectors["body"] = 1

\* ---- ConfigLoader::load on every file system, called by start_crawl ----
InitLoad ==
    /\ InitStore /\ InitOrch /\ InitProxyIdle /\ InitUrlIdle /\ InitRunIdle
    /\ InitCrawlIdle /\ InitCacheIdle /\ InitRefIdle /\ InitCollIdle
    /\ InitExtractIdle /\ InitDashIdle
    /\ cfiles \in FileSystems
    /\ loader = NoLoad
    /\ started = NoStart
    /\ mpair = NoPair
    /\ mout = NoMerge
NextLoad ==
    \/ \E config \in ConfigParams, url \in UrlParams, io \in {"ok", "err"} :
          start_crawl_begin(config, url, io)
    \/ lwi_call
    \/ lwi_return
    \/ \E io \in {"ok", "err"} : start_crawl_loaded(io)
SpecLoad == InitLoad /\ [][NextLoad]_vars

\* load runs on the thread of its caller, which goes on until it returns.
SpecLoadFair == SpecLoad /\ WF_vars(lwi_call) /\ WF_vars(lwi_return)

\* The chain of `extends` links from a path, read off the files: it ends in
\* a file without parent ("root"), leaves the files ("missing") or comes
\* back to a file of the chain ("circular").
RECURSIVE ChainEnd(_, _, _)
ChainEnd(fs, p, seen) ==
    IF p \notin Files THEN "missing"
    ELSE IF p \in seen THEN "circular"
    ELSE IF fs[p].extends = <<>> THEN "root"
    ELSE ChainEnd(fs, fs[p].extends[1], seen \cup {p})

\* A chain that ends in a root, merged from the root down, each file over
\* what its parent gave.
RECURSIVE RootFirst(_, _)
RootFirst(fs, p) ==
    IF fs[p].extends = <<>> THEN load_file(fs, p)
    ELSE merge_configs(RootFirst(fs, fs[p].extends[1]), load_file(fs, p))

\* C32: ConfigLoader::load terminates on every finite set of configuration
\* files: a call that is under way ends; when the `extends` links come back
\* to a file of the chain (a file that extends itself included) the result
\* is the circular-inheritance error; a chain without repetition is loaded
\* root-first, each child merged over its parent.
C32_LoadTerminates ==
    /\ (loader.pc \in {"call", "return"}) ~> (loader.pc = "done")
    /\ [](loader.pc = "done" =>
            /\ ChainEnd(cfiles, loader.arg, {}) = "circular"
                  => loader.ret = ErrConfig("circular")
            /\ ChainEnd(cfiles, loader.arg, {}) = "root"
                  => /\ loader.ret.kind = "Ok"
                        => loader.ret.config = RootFirst(cfiles, loader.arg)
                     /\ loader.ret.kind = "Err"
                        => loader.ret.error = "validation")

\* C32 witness: load has returned the circular-inheritance error for a
\* file whose parent extends the file itself.
C32_Witness_CycleOfTwo ==
    /\ loader.pc = "done"
    /\ loader.ret = ErrConfig("circular")
    /\ loader.arg \in Files
    /\ cfiles[loader.arg].extends # <<>>
    /\ cfiles[loader.arg].extends[1] \in Files \ {loader.arg}
    /\ cfiles[cfiles[loader.arg].extends[1]].extends = <<loader.arg>>

\* C32 witness: load has returned the merge of a chain of three files.
C32_Witness_ChainOfThree ==
    /\ loader.pc = "done"
    /\ loader.ret.kind = "Ok"
    /\ loader.visited = Files
    /\ loader.ret.config.name = <<loader.arg>>
    /\ loader.ret.config.start_urls # <<loader.arg>>

\* C33: every configuration load returns has a non-empty name and a
\* non-empty start_urls list; the validation is that of the merged
\* configuration of the file the caller named: load returns it when it has
\* both, whatever the parents lack, and an error when it lacks either; and
\* start_crawl starts no crawl with an empty list of start URLs.
C33_ValidatedMerged ==
    /\ (loader.pc = "done" /\ loader.ret.kind = "Ok")
          => /\ Len(loader.ret.config.name) >= 1
             /\ Len(loader.ret.config.start_urls) >= 1
    /\ (loader.pc = "done" /\ ChainEnd(cfiles, loader.arg, {}) = "root")
          => IF /\ RootFirst(cfiles, loader.arg).name # <<>>
                /\ RootFirst(cfiles, loader.arg).start_urls # <<>>
             THEN loader.ret = OkConfig(RootFirst(cfiles, loader.arg))
             ELSE loader.ret.kind = "Err"
    /\ \A r \in 1..Len(tasks) : tasks[r].start_urls # <<>>
    /\ started.answer = "Crawl started" <=> tasks # <<>>
    /\ (started.pc = "answered" /\ loader.pc = "done"
            /\ loader.ret.kind = "Err") => tasks = <<>>

\* C33 witness: a crawl started from a file that has no name of its own
\* over a parent that has no start URL: neither file passes the validation,
\* their merge does.
C33_Witness_InvalidParentValidMerge ==
    /\ started.answer = "Crawl started"
    /\ loader.pc = "done"
    /\ loader.ret.kind = "Ok"
    /\ Len(tasks) = 1
    /\ tasks[1].start_urls = <<loader.arg>>
    /\ ~cfiles[loader.arg].named
    /\ cfiles[loader.arg].extends # <<>>
    /\ ~cfiles[cfiles[loader.arg].extends[1]].has_url
    /\ cfiles[cfiles[loader.arg].extends[1]].named

\* C33 witness: a request without file and without url is answered with
\* "No start URL provided" and starts nothing.
C33_Witness_NoStartUrl ==
    /\ started.answer = "No start URL provided"
    /\ loader.pc = "idle"
    /\ tasks = <<>>

\* ---- the dashboard: requests to start and to stop, crawls that end ----
InitDash ==
    /\ InitStore /\ InitOrch /\ InitProxyIdle /\ InitUrlIdle /\ InitRunIdle
    /\ InitCacheIdle /\ InitRefIdle /\ InitCollIdle /\ InitExtractIdle
    /\ InitConfIdle
    /\ crawls \in {<<>>, <<FinishedCrawl>>}
    /\ clock = 0
    /\ crawlRet = NoCall
    /\ sites = InitialSites(crawls)
    /\ tokens = {}
    /\ tasks = <<>>
    /\ stopRet = NoStop
NextDash ==
    \/ \E config \in ConfigParams, loaded \in LoadResults, url \in UrlParams,
          io \in {"ok", "err"} : start_crawl(config, loaded, url, io)
    \/ \E id \in StopIds : stop_crawl(id)
    \/ \E r \in 1..MaxStarts : crawl_return(r)
    \/ \E r \in 1..MaxStarts : listener_finish(r)
SpecDash == InitDash /\ [][NextDash]_vars

\* The task start_crawl spawned is run by the runtime until it ends.
SpecDashFair ==
    SpecDash /\ \A r \in 1..MaxStarts : WF_vars(listener_finish(r))

\* The site start_crawl pushed for the r-th crawl it spawned.
TaskSite(r) == Len(sites) - Len(tasks) + r

\* C31: while a crawl start_crawl started is running, stop_crawl with its
\* id cancels the token of that crawl and of no crawl of another id; once
\* the run of a crawl has returned its site is eventually marked finished
\* and its token removed, and from then on stop_crawl with its id answers
\* not-found; whatever the order of the requests and whether or not
\* create_crawl failed.
C31_StopControl ==
    /\ [][\A id \in StopIds : stop_crawl(id) =>
            /\ \A r \in 1..Len(tasks) :
                  (tasks[r].pc = "running" /\ tasks[r].id = id)
                     => /\ tasks'[r].cancelled
                        /\ stopRet'.answer = "Crawl stopping..."
            /\ \A r \in 1..Len(tasks) :
                  tasks[r].id # id
                     => tasks'[r].cancelled = tasks[r].cancelled
            /\ \A r \in 1..Len(tasks) :
                  (tasks[r].pc = "finished" /\ tasks[r].id = id)
                     => stopRet'.answer = "Crawl not found or already stopped"
         ]_vars
    /\ \A r \in 1..MaxStarts :
          (r <= Len(tasks) /\ tasks[r].pc = "returned")
             ~> (r <= Len(tasks) /\ tasks[r].pc = "finished")
    /\ [](\A r \in 1..Len(tasks) :
            tasks[r].pc = "finished"
               => /\ sites[TaskSite(r)].finished
                  /\ ~HasToken(tokens, tasks[r].id))
====
